---------------------------- MODULE Spec2Model ----------------------------
(***************************************************************************)
(* Message-ingestion pipeline of the DalCo backend: language detection,    *)
(* intent classification, entity extraction, lead scoring, persistence to  *)
(* the document store and best-effort export to the spreadsheet.           *)
(*                                                                         *)
(* A JavaScript string is a sequence of symbols.  Free text is a sequence  *)
(* of one-character strings; a JSON reply of the AI service is a sequence  *)
(* of JSON lexemes ("{", "}", ":", ",", key and value symbols) possibly    *)
(* surrounded by free text.                                                *)
(***************************************************************************)
EXTENDS Integers, Sequences, FiniteSets, TLC

VARIABLES
    messages,     \* collection 'messages': sequence of documents, id = index
    leads,        \* collection 'leads': sequence of documents, id = index
    sheet,        \* rows appended to the spreadsheet
    sheetsReady,  \* sheetsService.sheets is set (credentials configured)
    orgSheets,    \* per organization: a spreadsheet is connected
    pc,           \* per caller: position inside processMessage
    msg,          \* per caller: messageData of the current run
    loc,          \* per caller: locals of the current run
    outcome,      \* per caller: what the last run returned or raised
    mode,         \* per caller: "http" (POST /process) or "batch"
    queue,        \* per caller: the messages given to batchProcessMessages
    results,      \* per caller: results collected by batchProcessMessages
    reply,        \* per caller: the HTTP response or the batch summary
    started,      \* number of processMessage runs started so far
    arg,          \* input of the pure function under check
    ret,          \* output of the pure function under check
    fpc           \* "none" | "in" | "out" | "again": position of the pure-function check

vars == <<messages, leads, sheet, sheetsReady, orgSheets, pc, msg, loc,
          outcome, mode, queue, results, reply, started, arg, ret, fpc>>

-----------------------------------------------------------------------------
(* JavaScript values                                                       *)

\* the absent document id (null leadId, missing messageId); store ids start at 1
NoId == 0

Undef == "undefined"
Null == "null"
EmptyStr == ""

\* JS truthiness of a field value (undefined, null and '' are falsy)
Truthy(v) == v \notin {Undef, Null, EmptyStr}

\* property access obj.f on an object given as a function on its own keys
Get(obj, f) == IF f \in DOMAIN obj THEN obj[f] ELSE Undef

\* a || b
Or(a, b) == IF Truthy(a) THEN a ELSE b

Min(a, b) == IF a <= b THEN a ELSE b

-----------------------------------------------------------------------------
(* Strings                                                                 *)

UpperChars == <<"A","B","C","D","E","F","G","H","I","J","K","L","M","N","O","P","Q","R","S","T","U","V","W","X","Y","Z">>
LowerChars == <<"a","b","c","d","e","f","g","h","i","j","k","l","m","n","o","p","q","r","s","t","u","v","w","x","y","z">>

toLowerChar(c) ==
    IF \E i \in 1..Len(UpperChars) : UpperChars[i] = c
    THEN LowerChars[CHOOSE i \in 1..Len(UpperChars) : UpperChars[i] = c]
    ELSE c

toLowerCase(s) == [i \in 1..Len(s) |-> toLowerChar(s[i])]

WhiteSpace == {" ", "\t", "\n", "\r"}

trim(s) ==
    LET keep == {i \in 1..Len(s) : s[i] \notin WhiteSpace}
    IN  IF keep = {} THEN <<>>
        ELSE LET lo == CHOOSE i \in keep : \A j \in keep : i <= j
                 hi == CHOOSE i \in keep : \A j \in keep : j <= i
             IN  SubSeq(s, lo, hi)

\* Array.prototype.includes
includes(arr, x) == \E i \in 1..Len(arr) : arr[i] = x

\* String.prototype.includes
strIncludes(s, w) ==
    \E i \in 0..(Len(s) - Len(w)) : SubSeq(s, i + 1, i + Len(w)) = w

S_booking == <<"b","o","o","k","i","n","g">>
S_inquiry == <<"i","n","q","u","i","r","y">>
S_complaint == <<"c","o","m","p","l","a","i","n","t">>
S_feedback == <<"f","e","e","d","b","a","c","k">>
S_general == <<"g","e","n","e","r","a","l">>
NoResponse == <<"N","o"," ","r","e","s","p","o","n","s","e"," ","g","e","n","e","r","a","t","e","d">>
S_saya == <<"s","a","y","a">>
S_nak == <<"n","a","k">>
S_untuk == <<"u","n","t","u","k">>
S_dengan == <<"d","e","n","g","a","n">>
S_boleh == <<"b","o","l","e","h">>
S_ada == <<"a","d","a">>
S_tak == <<"t","a","k">>
S_tidak == <<"t","i","d","a","k">>

-----------------------------------------------------------------------------
(* jamai.service.js                                                        *)

\* response.rows[0]?.AI || 'No response generated'; the empty sequence
\* stands for a missing or empty AI column
generateResponse(ai) == IF ai = <<>> THEN NoResponse ELSE ai

validIntents == <<S_booking, S_inquiry, S_complaint, S_feedback, S_general>>

\* classifyIntent without the trim
classifyIntent_noTrim(ai) ==
    LET response == generateResponse(ai)
        intent == toLowerCase(response)
    IN  [intent |-> IF includes(validIntents, intent) THEN intent ELSE S_general,
         confidence |-> 85,
         rawResponse |-> response]

classifyIntent(ai) ==
    LET response == generateResponse(ai)
        intent == trim(toLowerCase(response))
    IN  [intent |-> IF includes(validIntents, intent) THEN intent ELSE S_general,
         confidence |-> 85,
         rawResponse |-> response]

\* keys and values a JSON reply is built from
JsonKeys == {"name", "phone", "email", "date", "time", "service_type", "intent"}
JsonVals == {"v", "w", "null", "''", "7"}

\* the JS value a JSON value lexeme denotes; "7" is the number 7, "v" and "w"
\* are strings
jsonValue(sym) ==
    CASE sym = "null" -> Null
      [] sym = "''" -> EmptyStr
      [] OTHER -> sym

\* response.match(/\{.*\}/s): leftmost "{", then greedily up to the last "}"
jsonMatch(s) ==
    LET opens == {i \in 1..Len(s) : s[i] = "{"}
        closes == {i \in 1..Len(s) : s[i] = "}"}
    IN  IF opens = {} \/ closes = {} THEN [found |-> FALSE, text |-> <<>>]
        ELSE LET lo == CHOOSE i \in opens : \A j \in opens : i <= j
                 hi == CHOOSE i \in closes : \A j \in closes : j <= i
             IN  IF lo < hi THEN [found |-> TRUE, text |-> SubSeq(s, lo, hi)]
                 ELSE [found |-> FALSE, text |-> <<>>]

\* JSON.parse of a flat object: "{" [key ":" value ("," key ":" value)*] "}";
\* ok = FALSE stands for the SyntaxError it throws, a repeated key keeps
\* the last value
JSONparse(t) ==
    LET n == Len(t) - 2
        inner == SubSeq(t, 2, Len(t) - 1)
        wellFormed ==
            /\ Len(t) >= 2 /\ t[1] = "{" /\ t[Len(t)] = "}"
            /\ (n = 0 \/ n % 4 = 3)
            /\ \A i \in 1..n :
                  CASE i % 4 = 1 -> inner[i] \in JsonKeys
                    [] i % 4 = 2 -> inner[i] = ":"
                    [] i % 4 = 3 -> inner[i] \in JsonVals
                    [] OTHER -> inner[i] = ","
        keyPos(k) == {i \in 1..n : i % 4 = 1 /\ inner[i] = k}
        lastPos(k) == CHOOSE i \in keyPos(k) : \A j \in keyPos(k) : j <= i
    IN  IF wellFormed
        THEN [ok |-> TRUE,
              val |-> [k \in {inner[i] : i \in {j \in 1..n : j % 4 = 1}}
                          |-> jsonValue(inner[lastPos(k) + 2])]]
        ELSE [ok |-> FALSE, val |-> <<>>]

EmptyObj == [k \in {} |-> Undef]

extractEntities(ai) ==
    LET response == generateResponse(ai)
        m == jsonMatch(response)
        parsed == JSONparse(m.text)
    IN  [entities |-> IF m.found
                      THEN IF parsed.ok THEN parsed.val
                           ELSE [raw |-> response]
                      ELSE EmptyObj]

bmKeywords == <<S_saya, S_nak, S_untuk, S_dengan, S_boleh, S_ada, S_tak, S_tidak>>

\* detectLanguage with a third answer for a text with one marker word
detectLanguage_mixed(text) ==
    LET lowerText == toLowerCase(text)
        bmCount == Cardinality({i \in 1..Len(bmKeywords) :
                                   strIncludes(lowerText, bmKeywords[i])})
    IN  [language |-> IF bmCount >= 2 THEN "bm"
                      ELSE IF bmCount = 1 THEN "mixed" ELSE "en",
         confidence |-> IF bmCount >= 2 THEN 80 ELSE 60]

\* detectLanguage matching the marker words case-sensitively
detectLanguage_noLower(text) ==
    LET bmCount == Cardinality({i \in 1..Len(bmKeywords) :
                                   strIncludes(text, bmKeywords[i])})
    IN  [language |-> IF bmCount >= 2 THEN "bm" ELSE "en",
         confidence |-> IF bmCount >= 2 THEN 80 ELSE 60]

\* confidence is in hundredths: 80 for 0.8, 60 for 0.6
detectLanguage(text) ==
    LET lowerText == toLowerCase(text)
        bmCount == Cardinality({i \in 1..Len(bmKeywords) :
                                   strIncludes(lowerText, bmKeywords[i])})
    IN  [language |-> IF bmCount >= 2 THEN "bm" ELSE "en",
         confidence |-> IF bmCount >= 2 THEN 80 ELSE 60]

\* result?.Step4_Refine of the first row; no row gives the empty text
executeActionChain(rows) ==
    [finalResponse |-> IF Len(rows) = 0 THEN <<>> ELSE rows[1].refine]

-----------------------------------------------------------------------------
(* messageProcessor.service.js: lead scoring                               *)

bump(score, entities, field, points) ==
    IF Truthy(Get(entities, field)) THEN score + points ELSE score

\* calculateLeadScore without the cap
calculateLeadScore_noCap(entities) ==
    LET s0 == 50
        s1 == bump(s0, entities, "name", 10)
        s2 == bump(s1, entities, "phone", 15)
        s3 == bump(s2, entities, "email", 15)
        s4 == bump(s3, entities, "date", 10)
        s5 == bump(s4, entities, "time", 10)
        s6 == bump(s5, entities, "service_type", 10)
    IN  s6

\* calculateLeadScore giving the phone 10 points instead of 15
calculateLeadScore_phone10(entities) ==
    LET s0 == 50
        s1 == bump(s0, entities, "name", 10)
        s2 == bump(s1, entities, "phone", 10)
        s3 == bump(s2, entities, "email", 15)
        s4 == bump(s3, entities, "date", 10)
        s5 == bump(s4, entities, "time", 10)
        s6 == bump(s5, entities, "service_type", 10)
    IN  Min(s6, 100)

calculateLeadScore(entities) ==
    LET s0 == 50
        s1 == bump(s0, entities, "name", 10)
        s2 == bump(s1, entities, "phone", 15)
        s3 == bump(s2, entities, "email", 15)
        s4 == bump(s3, entities, "date", 10)
        s5 == bump(s4, entities, "time", 10)
        s6 == bump(s5, entities, "service_type", 10)
    IN  Min(s6, 100)

\* leadData without the back-reference to the Message
leadData_noSource(organizationId, messageId, entities, phone) ==
    [organizationId |-> organizationId,
     sourceMessageId |-> NoId,
     customerName |-> Or(Get(entities, "name"), "Unknown"),
     phone |-> Or(Get(entities, "phone"), phone),
     email |-> Or(Get(entities, "email"), Null),
     serviceType |-> Or(Get(entities, "service_type"), Null),
     preferredDate |-> Or(Get(entities, "date"), Null),
     preferredTime |-> Or(Get(entities, "time"), Null),
     status |-> "new",
     score |-> calculateLeadScore(entities),
     notes |-> Or(Get(entities, "intent"), "unknown")]

\* leadData of createLeadFromMessage
leadData(organizationId, messageId, entities, phone) ==
    [organizationId |-> organizationId,
     sourceMessageId |-> messageId,
     customerName |-> Or(Get(entities, "name"), "Unknown"),
     phone |-> Or(Get(entities, "phone"), phone),
     email |-> Or(Get(entities, "email"), Null),
     serviceType |-> Or(Get(entities, "service_type"), Null),
     preferredDate |-> Or(Get(entities, "date"), Null),
     preferredTime |-> Or(Get(entities, "time"), Null),
     status |-> "new",
     score |-> calculateLeadScore(entities),
     notes |-> Or(Get(entities, "intent"), "unknown")]

\* leadData of POST /api/leads; the body's fields are optional
manualLeadData(organizationId, body) ==
    [organizationId |-> organizationId,
     sourceMessageId |-> NoId,
     customerName |-> Or(Get(body, "customerName"), "Unknown"),
     phone |-> Or(Get(body, "phone"), Null),
     email |-> Or(Get(body, "email"), Null),
     serviceType |-> Or(Get(body, "serviceType"), Null),
     preferredDate |-> Undef,
     preferredTime |-> Undef,
     status |-> "new",
     score |-> 50,
     notes |-> Or(Get(body, "notes"), EmptyStr)]

-----------------------------------------------------------------------------
(* Bounds and inputs                                                       *)

MaxRuns == 2      \* processMessage runs started in one behaviour
MaxBatch == 2     \* messages in one batchProcessMessages call

\* c1 posts to /messages/process, c2 calls batchProcessMessages
Callers == {"c1", "c2"}
HttpCallers == {"c1"}
BatchCallers == {"c2"}
Orgs == {"org1", "org2"}

\* external message ids: absent, or 1, which is also the id of the first
\* document the store creates
ExtIds == {NoId, 1}

Contents == {<<"S","a","y","a"," ","n","a","k">>}

\* the messages handed to batchProcessMessages
MessageData ==
    [organizationId : {"org2"}, channelType : {"whatsapp"}, from : {"+60"},
     content : Contents, messageId : ExtIds]

\* request bodies of POST /process: a field may be missing
Bodies ==
    [organizationId : Orgs \cup {Undef}, channelType : {"whatsapp", Undef},
     from : {"+60", Undef}, content : Contents \cup {<<>>}, messageId : ExtIds]

Batches == UNION {[1..n -> MessageData] : n \in 0..MaxBatch}

\* the id `msg_${Date.now()}` the route makes up; never a store id
MsgNow == 100

\* replies of the AI service in a pipeline run
IntentAI == {<<" ","B","o","o","k","i","n","g","\n">>,
             <<"r","e","f","u","n","d">>}
EntityAI == {<<"O","k"," ","{","name",":","v",",","date",":","w","}">>}
ChainAI == {<<[understand |-> <<"u">>, fetch |-> <<"f">>,
                     draft |-> <<"d">>, refine |-> <<"r">>]>>}
ChatAI == {<<"o","k">>}

AIError == "AI service error"
StoreError == "store error"
UpdateError == "update error"
SheetError == "sheet error"

-----------------------------------------------------------------------------
(* State of one processMessage run                                         *)

NoLoc ==
    [language |-> Undef, intent |-> <<>>, entities |-> EmptyObj,
     messageRef |-> NoId, aiResponse |-> <<>>, leadId |-> NoId,
     error |-> Undef, leadFailed |-> FALSE, sheetFailed |-> FALSE,
     generator |-> [fn |-> "none"]]

NoMsg == [organizationId |-> Undef, channelType |-> Undef, from |-> Undef,
          content |-> <<>>, messageId |-> NoId]

NoOutcome == [kind |-> "none"]

Running(p) == pc[p] \notin {"idle", "done"}

\* the object processMessage returns
resultOf(l) ==
    [success |-> TRUE, messageId |-> l.messageRef, language |-> l.language,
     intent |-> l.intent, entities |-> l.entities, response |-> l.aiResponse,
     leadId |-> l.leadId]

\* DocumentReference.update: merges the given fields into the document
update(doc, fields) == fields @@ doc

\* an update of a Message document; writes counts the updates the document
\* has received since it was added
mutate(doc, fields) == update([doc EXCEPT !.writes = @ + 1], fields)

Init ==
    /\ messages = <<>>
    /\ leads = <<>>
    /\ sheet = <<>>
    /\ sheetsReady = TRUE
    /\ orgSheets = [o \in Orgs |-> o = "org1"]
    /\ pc = [p \in Callers |-> "idle"]
    /\ msg = [p \in Callers |-> NoMsg]
    /\ loc = [p \in Callers |-> NoLoc]
    /\ outcome = [p \in Callers |-> NoOutcome]
    /\ mode = [p \in Callers |-> "none"]
    /\ queue = [p \in Callers |-> <<>>]
    /\ results = [p \in Callers |-> <<>>]
    /\ reply = [p \in Callers |-> [status |-> 0]]
    /\ started = 0
    /\ arg = <<>>
    /\ ret = <<>>
    /\ fpc = "none"

pure == <<arg, ret, fpc>>
stores == <<messages, leads, sheet>>
config == <<sheetsReady, orgSheets>>

-----------------------------------------------------------------------------
(* processMessage                                                          *)

\* entry of processMessage up to its first await: step 1 runs synchronously
enter(p, data) ==
    /\ msg' = [msg EXCEPT ![p] = data]
    /\ loc' = [loc EXCEPT ![p] =
                 [NoLoc EXCEPT !.language = detectLanguage(data.content).language]]
    /\ pc' = [pc EXCEPT ![p] = "classify"]

\* the summary batchProcessMessages returns
batchSummary(inputs, rs) ==
    [status |-> 200, success |-> TRUE,
     total |-> Len(inputs),
     processed |-> Cardinality({i \in 1..Len(rs) : rs[i].success}),
     failed |-> Cardinality({i \in 1..Len(rs) : ~rs[i].success}),
     results |-> rs]

\* the loop of batchProcessMessages without its try/catch: the first item
\* that raises ends the batch
finish_abort(p, out) ==
    /\ outcome' = [outcome EXCEPT ![p] = out]
    /\ UNCHANGED <<started, mode>>
    /\ IF mode[p] = "batch"
       THEN LET item == IF out.kind = "returned"
                        THEN [success |-> TRUE] @@ out.result
                        ELSE [success |-> FALSE, error |-> out.error,
                              messageId |-> msg[p].messageId]
                rs == Append(results[p], item)
            IN  /\ results' = [results EXCEPT ![p] = rs]
                /\ IF Len(rs) < Len(queue[p]) /\ out.kind = "returned"
                   THEN /\ enter(p, queue[p][Len(rs) + 1])
                        /\ UNCHANGED <<reply, queue>>
                   ELSE /\ pc' = [pc EXCEPT ![p] = "done"]
                        /\ loc' = [loc EXCEPT ![p] = NoLoc]
                        /\ msg' = [msg EXCEPT ![p] = NoMsg]
                        /\ queue' = [queue EXCEPT ![p] = <<>>]
                        /\ reply' = [reply EXCEPT ![p] = batchSummary(queue[p], rs)]
       ELSE /\ pc' = [pc EXCEPT ![p] = "done"]
            /\ loc' = [loc EXCEPT ![p] = NoLoc]
            /\ msg' = [msg EXCEPT ![p] = NoMsg]
            /\ reply' = [reply EXCEPT ![p] =
                  IF out.kind = "returned"
                  THEN [status |-> 200] @@ out.result
                  ELSE [status |-> 500, success |-> FALSE,
                        error |-> "Failed to process message"]]
            /\ UNCHANGED <<results, queue>>

\* the route of POST /process answering with the error of the pipeline
finish_leak(p, out) ==
    /\ outcome' = [outcome EXCEPT ![p] = out]
    /\ UNCHANGED <<started, mode>>
    /\ IF mode[p] = "batch"
       THEN LET item == IF out.kind = "returned"
                        THEN [success |-> TRUE] @@ out.result
                        ELSE [success |-> FALSE, error |-> out.error,
                              messageId |-> msg[p].messageId]
                rs == Append(results[p], item)
            IN  /\ results' = [results EXCEPT ![p] = rs]
                /\ IF Len(rs) < Len(queue[p])
                   THEN /\ enter(p, queue[p][Len(rs) + 1])
                        /\ UNCHANGED <<reply, queue>>
                   ELSE /\ pc' = [pc EXCEPT ![p] = "done"]
                        /\ loc' = [loc EXCEPT ![p] = NoLoc]
                        /\ msg' = [msg EXCEPT ![p] = NoMsg]
                        /\ queue' = [queue EXCEPT ![p] = <<>>]
                        /\ reply' = [reply EXCEPT ![p] = batchSummary(queue[p], rs)]
       ELSE /\ pc' = [pc EXCEPT ![p] = "done"]
            /\ loc' = [loc EXCEPT ![p] = NoLoc]
            /\ msg' = [msg EXCEPT ![p] = NoMsg]
            /\ reply' = [reply EXCEPT ![p] =
                  IF out.kind = "returned"
                  THEN [status |-> 200] @@ out.result
                  ELSE [status |-> 500, success |-> FALSE,
                        error |-> out.error]]
            /\ UNCHANGED <<results, queue>>

\* a run of processMessage ends: the route answers, or the loop of
\* batchProcessMessages records the item and goes on with the next message
finish(p, out) ==
    /\ outcome' = [outcome EXCEPT ![p] = out]
    /\ UNCHANGED <<started, mode>>
    /\ IF mode[p] = "batch"
       THEN LET item == IF out.kind = "returned"
                        THEN [success |-> TRUE] @@ out.result
                        ELSE [success |-> FALSE, error |-> out.error,
                              messageId |-> msg[p].messageId]
                rs == Append(results[p], item)
            IN  /\ results' = [results EXCEPT ![p] = rs]
                /\ IF Len(rs) < Len(queue[p])
                   THEN /\ enter(p, queue[p][Len(rs) + 1])
                        /\ UNCHANGED <<reply, queue>>
                   ELSE /\ pc' = [pc EXCEPT ![p] = "done"]
                        /\ loc' = [loc EXCEPT ![p] = NoLoc]
                        /\ msg' = [msg EXCEPT ![p] = NoMsg]
                        /\ queue' = [queue EXCEPT ![p] = <<>>]
                        /\ reply' = [reply EXCEPT ![p] = batchSummary(queue[p], rs)]
       ELSE /\ pc' = [pc EXCEPT ![p] = "done"]
            /\ loc' = [loc EXCEPT ![p] = NoLoc]
            /\ msg' = [msg EXCEPT ![p] = NoMsg]
            /\ reply' = [reply EXCEPT ![p] =
                  IF out.kind = "returned"
                  THEN [status |-> 200] @@ out.result
                  ELSE [status |-> 500, success |-> FALSE,
                        error |-> "Failed to process message"]]
            /\ UNCHANGED <<results, queue>>

\* an awaited call rejected: control moves to the catch branch
fail(p, message) ==
    /\ loc' = [loc EXCEPT ![p].error = message]
    /\ pc' = [pc EXCEPT ![p] = "catch"]

MissingFields == "Missing required fields: organizationId, channelType, from, content"

\* the route without the check of content
postProcess_noContentCheck(p, body) ==
    /\ pc[p] = "idle"
    /\ started < MaxRuns
    /\ mode' = [mode EXCEPT ![p] = "http"]
    /\ UNCHANGED <<stores, config, pure, queue, results>>
    /\ IF \/ ~Truthy(body.organizationId) \/ ~Truthy(body.channelType)
          \/ ~Truthy(body.from)
       THEN /\ reply' = [reply EXCEPT ![p] =
                  [status |-> 400, success |-> FALSE,
                   error |-> MissingFields]]
            /\ pc' = [pc EXCEPT ![p] = "done"]
            /\ UNCHANGED <<msg, loc, outcome, started>>
       ELSE /\ started' = started + 1
            /\ enter(p, [body EXCEPT !.messageId =
                           IF body.messageId # NoId THEN body.messageId
                           ELSE MsgNow])
            /\ UNCHANGED <<reply, outcome>>

\* POST /api/messages/process
postProcess(p, body) ==
    /\ pc[p] = "idle"
    /\ started < MaxRuns
    /\ mode' = [mode EXCEPT ![p] = "http"]
    /\ UNCHANGED <<stores, config, pure, queue, results>>
    /\ IF \/ ~Truthy(body.organizationId) \/ ~Truthy(body.channelType)
          \/ ~Truthy(body.from) \/ body.content = <<>>
       THEN /\ reply' = [reply EXCEPT ![p] =
                  [status |-> 400, success |-> FALSE,
                   error |-> MissingFields]]
            /\ pc' = [pc EXCEPT ![p] = "done"]
            /\ UNCHANGED <<msg, loc, outcome, started>>
       ELSE /\ started' = started + 1
            /\ enter(p, [body EXCEPT !.messageId =
                           IF body.messageId # NoId THEN body.messageId
                           ELSE MsgNow])
            /\ UNCHANGED <<reply, outcome>>

\* batchProcessMessages(messages)
batchProcessMessages(p, inputs) ==
    /\ pc[p] = "idle"
    /\ started + Len(inputs) <= MaxRuns
    /\ started' = started + Len(inputs)
    /\ mode' = [mode EXCEPT ![p] = "batch"]
    /\ queue' = [queue EXCEPT ![p] = inputs]
    /\ results' = [results EXCEPT ![p] = <<>>]
    /\ UNCHANGED <<stores, config, pure, outcome>>
    /\ IF inputs = <<>>
       THEN /\ pc' = [pc EXCEPT ![p] = "done"]
            /\ reply' = [reply EXCEPT ![p] = batchSummary(inputs, <<>>)]
            /\ UNCHANGED <<msg, loc>>
       ELSE /\ enter(p, inputs[1])
            /\ reply' = reply

\* step 2 of a batch item whose processMessage the loop does not await: the
\* loop records the item and starts the next message while the call is open
Classify_noAwait(p) ==
    /\ pc[p] = "classify"
    /\ UNCHANGED <<stores, config, pure, outcome, mode, queue, reply, started>>
    /\ IF mode[p] = "batch" /\ Len(results[p]) + 1 < Len(queue[p])
       THEN /\ results' = [results EXCEPT ![p] = Append(@, [success |-> TRUE])]
            /\ enter(p, queue[p][Len(results[p]) + 2])
       ELSE /\ UNCHANGED <<msg, results>>
            /\ \/ fail(p, AIError)
               \/ \E ai \in IntentAI :
                    /\ loc' = [loc EXCEPT ![p].intent = classifyIntent(ai).intent]
                    /\ pc' = [pc EXCEPT ![p] = "extract"]

\* step 2: await jamaiService.classifyIntent(content)
Classify(p) ==
    /\ pc[p] = "classify"
    /\ UNCHANGED <<stores, config, pure, msg, outcome, mode, queue, results,
                   reply, started>>
    /\ \/ fail(p, AIError)
       \/ \E ai \in IntentAI :
            /\ loc' = [loc EXCEPT ![p].intent = classifyIntent(ai).intent]
            /\ pc' = [pc EXCEPT ![p] = "extract"]

\* step 3: await jamaiService.extractEntities(content)
Extract(p) ==
    /\ pc[p] = "extract"
    /\ UNCHANGED <<stores, config, pure, msg, outcome, mode, queue, results,
                   reply, started>>
    /\ \/ fail(p, AIError)
       \/ \E ai \in EntityAI :
            /\ loc' = [loc EXCEPT ![p].entities = extractEntities(ai).entities]
            /\ pc' = [pc EXCEPT ![p] = "persist"]

\* step 4 adding the document without the fields of steps 1 to 3
messageDoc_bare(data, l) ==
    [organizationId |-> data.organizationId,
     channelType |-> data.channelType,
     direction |-> "inbound",
     from |-> data.from,
     content |-> data.content,
     externalMessageId |-> data.messageId,
     language |-> Undef,
     intent |-> <<>>,
     entities |-> EmptyObj,
     processingStatus |-> "processing",
     writes |-> 0]

\* the document of step 4
messageDoc(data, l) ==
    [organizationId |-> data.organizationId,
     channelType |-> data.channelType,
     direction |-> "inbound",
     from |-> data.from,
     content |-> data.content,
     externalMessageId |-> data.messageId,
     language |-> l.language,
     intent |-> l.intent,
     entities |-> l.entities,
     processingStatus |-> "processing",
     writes |-> 0]

\* step 4 reusing the document that already carries the external id
Persist_dedupe(p) ==
    /\ pc[p] = "persist"
    /\ UNCHANGED <<leads, sheet, config, pure, msg, outcome, mode, queue,
                   results, reply, started>>
    /\ \/ fail(p, StoreError) /\ messages' = messages
       \/ LET same == {m \in 1..Len(messages) :
                         messages[m].externalMessageId = msg[p].messageId}
          IN  IF same = {}
              THEN /\ messages' = Append(messages, messageDoc(msg[p], loc[p]))
                   /\ loc' = [loc EXCEPT ![p].messageRef = Len(messages) + 1]
                   /\ pc' = [pc EXCEPT ![p] = "respond"]
              ELSE /\ messages' = messages
                   /\ loc' = [loc EXCEPT ![p].messageRef = CHOOSE m \in same : TRUE]
                   /\ pc' = [pc EXCEPT ![p] = "respond"]

\* step 4: await db.collection('messages').add(...)
Persist(p) ==
    /\ pc[p] = "persist"
    /\ UNCHANGED <<leads, sheet, config, pure, msg, outcome, mode, queue,
                   results, reply, started>>
    /\ \/ fail(p, StoreError) /\ messages' = messages
       \/ /\ messages' = Append(messages, messageDoc(msg[p], loc[p]))
          /\ loc' = [loc EXCEPT ![p].messageRef = Len(messages) + 1]
          /\ pc' = [pc EXCEPT ![p] = "respond"]

\* step 5 calling the generator again after it failed
Respond_retry(p) ==
    /\ pc[p] = "respond"
    /\ UNCHANGED <<stores, config, pure, msg, outcome, mode, queue, results,
                   reply, started>>
    /\ \/ /\ loc[p].error = Undef
          /\ loc' = [loc EXCEPT ![p].error = AIError]
          /\ pc' = pc
       \/ fail(p, AIError)
       \/ /\ pc' = [pc EXCEPT ![p] = "lead"]
          /\ IF includes(<<S_booking, S_inquiry>>, loc[p].intent)
             THEN \E rows \in ChainAI :
                    loc' = [loc EXCEPT ![p].aiResponse =
                               executeActionChain(rows).finalResponse]
             ELSE \E ai \in ChatAI :
                    loc' = [loc EXCEPT ![p].aiResponse = generateResponse(ai)]

\* the call step 5 makes: the generator and its arguments
generatorCall(data, l) ==
    IF includes(<<S_booking, S_inquiry>>, l.intent)
    THEN [fn |-> "executeActionChain", message |-> data.content,
          messageType |-> l.intent]
    ELSE [fn |-> "generateResponse", message |-> data.content,
          language |-> l.language, context |-> [intent |-> l.intent]]

\* step 5 answering every intent with the single response
Respond_chatOnly(p) ==
    /\ pc[p] = "respond"
    /\ UNCHANGED <<stores, config, pure, msg, outcome, mode, queue, results,
                   reply, started>>
    /\ LET call == [fn |-> "generateResponse", message |-> msg[p].content,
                    language |-> loc[p].language,
                    context |-> [intent |-> loc[p].intent]]
       IN  \/ /\ loc' = [loc EXCEPT ![p].error = AIError, ![p].generator = call]
              /\ pc' = [pc EXCEPT ![p] = "catch"]
           \/ /\ pc' = [pc EXCEPT ![p] = "lead"]
              /\ \E ai \in ChatAI :
                    loc' = [loc EXCEPT ![p].aiResponse = generateResponse(ai),
                                       ![p].generator = call]

\* step 5: the action chain for booking and inquiry, else a single response;
\* generator records the call that was made
Respond(p) ==
    /\ pc[p] = "respond"
    /\ UNCHANGED <<stores, config, pure, msg, outcome, mode, queue, results,
                   reply, started>>
    /\ LET call == generatorCall(msg[p], loc[p])
       IN  \/ /\ loc' = [loc EXCEPT ![p].error = AIError, ![p].generator = call]
              /\ pc' = [pc EXCEPT ![p] = "catch"]
           \/ /\ pc' = [pc EXCEPT ![p] = "lead"]
              /\ IF call.fn = "executeActionChain"
                 THEN \E rows \in ChainAI :
                        loc' = [loc EXCEPT ![p].aiResponse =
                                   executeActionChain(rows).finalResponse,
                                           ![p].generator = call]
                 ELSE \E ai \in ChatAI :
                        loc' = [loc EXCEPT ![p].aiResponse = generateResponse(ai),
                                           ![p].generator = call]

\* createLeadFromMessage without its try/catch: a rejected add propagates
createLeadFromMessage_rethrow(p, organizationId, messageId, entities, phone, addOk) ==
    IF addOk
    THEN /\ leads' = Append(leads, leadData(organizationId, messageId, entities, phone))
         /\ loc' = [loc EXCEPT ![p].leadId = Len(leads) + 1]
         /\ pc' = [pc EXCEPT ![p] = "export"]
    ELSE /\ leads' = leads
         /\ fail(p, StoreError)

\* createLeadFromMessage: the add either resolves with a new id or rejects,
\* and a rejection is caught and turned into null
createLeadFromMessage(p, organizationId, messageId, entities, phone, addOk) ==
    IF addOk
    THEN /\ leads' = Append(leads, leadData(organizationId, messageId, entities, phone))
         /\ loc' = [loc EXCEPT ![p].leadId = Len(leads) + 1]
         /\ pc' = [pc EXCEPT ![p] = "export"]
    ELSE /\ leads' = leads
         /\ loc' = [loc EXCEPT ![p].leadId = NoId, ![p].leadFailed = TRUE]
         /\ pc' = [pc EXCEPT ![p] = "export"]

\* step 6 creating a lead whatever the intent
Lead_anyIntent(p) ==
    /\ pc[p] = "lead"
    /\ UNCHANGED <<messages, sheet, config, pure, msg, outcome, mode, queue,
                   results, reply, started>>
    /\ \E addOk \in BOOLEAN :
         createLeadFromMessage(p, msg[p].organizationId, loc[p].messageRef,
                               loc[p].entities, msg[p].from, addOk)

\* step 6 linking the lead to the external message id instead of the id of
\* the stored document
Lead_externalId(p) ==
    /\ pc[p] = "lead"
    /\ UNCHANGED <<messages, sheet, config, pure, msg, outcome, mode, queue,
                   results, reply, started>>
    /\ IF loc[p].intent = S_booking \/ loc[p].intent = S_inquiry
       THEN \E addOk \in BOOLEAN :
              createLeadFromMessage(p, msg[p].organizationId, msg[p].messageId,
                                    loc[p].entities, msg[p].from, addOk)
       ELSE /\ leads' = leads
            /\ loc' = [loc EXCEPT ![p].leadId = NoId]
            /\ pc' = [pc EXCEPT ![p] = "export"]

\* step 6: create a lead for booking and inquiry
Lead(p) ==
    /\ pc[p] = "lead"
    /\ UNCHANGED <<messages, sheet, config, pure, msg, outcome, mode, queue,
                   results, reply, started>>
    /\ IF loc[p].intent = S_booking \/ loc[p].intent = S_inquiry
       THEN \E addOk \in BOOLEAN :
              createLeadFromMessage(p, msg[p].organizationId, loc[p].messageRef,
                                    loc[p].entities, msg[p].from, addOk)
       ELSE /\ leads' = leads
            /\ loc' = [loc EXCEPT ![p].leadId = NoId]
            /\ pc' = [pc EXCEPT ![p] = "export"]

\* rowData of writeMessageToSheet; for a text (a sequence) the fallback ''
\* of `x || ''` is the empty sequence itself
rowData(data) ==
    <<"timestamp",
      Or(data.from, EmptyStr),
      Or(data.channel, EmptyStr),
      data.message,
      data.intent,
      Or(Get(data.entities, "name"), EmptyStr),
      Or(Get(data.entities, "phone"), Or(data.from, EmptyStr)),
      Or(Get(data.entities, "email"), EmptyStr),
      Or(Get(data.entities, "service_type"), EmptyStr),
      Or(Get(data.entities, "date"), EmptyStr),
      Or(Get(data.entities, "time"), EmptyStr),
      data.response,
      Or(Get(data, "status"), "processed")>>

\* sheetsService.writeMessageToSheet: "skipped" and "written" return,
\* "threw" is the rethrown error of the organization read or of the append
writeMessageToSheet(organizationId, data, readOk, appendOk) ==
    IF ~sheetsReady THEN [end |-> "skipped", rows |-> sheet]
    ELSE IF ~readOk THEN [end |-> "threw", rows |-> sheet]
    ELSE IF ~orgSheets[organizationId] THEN [end |-> "skipped", rows |-> sheet]
    ELSE IF ~appendOk THEN [end |-> "threw", rows |-> sheet]
    ELSE [end |-> "written", rows |-> Append(sheet, rowData(data))]

\* step 7 without its try/catch: the error of the export reaches the
\* catch branch of processMessage
Export_rethrow(p) ==
    /\ pc[p] = "export"
    /\ UNCHANGED <<messages, leads, config, pure, msg, outcome, mode, queue,
                   results, reply, started>>
    /\ \E readOk \in BOOLEAN, appendOk \in BOOLEAN :
         LET w == writeMessageToSheet(msg[p].organizationId,
                    [from |-> msg[p].from, channel |-> msg[p].channelType,
                     message |-> msg[p].content, intent |-> loc[p].intent,
                     entities |-> loc[p].entities,
                     response |-> loc[p].aiResponse],
                    readOk, appendOk)
         IN  /\ sheet' = w.rows
             /\ IF w.end = "threw"
                THEN fail(p, SheetError)
                ELSE /\ loc' = loc
                     /\ pc' = [pc EXCEPT ![p] = "finalize"]

\* step 7: best-effort export; the error of the export is caught and logged
Export(p) ==
    /\ pc[p] = "export"
    /\ UNCHANGED <<messages, leads, config, pure, msg, outcome, mode, queue,
                   results, reply, started>>
    /\ \E readOk \in BOOLEAN, appendOk \in BOOLEAN :
         LET w == writeMessageToSheet(msg[p].organizationId,
                    [from |-> msg[p].from, channel |-> msg[p].channelType,
                     message |-> msg[p].content, intent |-> loc[p].intent,
                     entities |-> loc[p].entities,
                     response |-> loc[p].aiResponse],
                    readOk, appendOk)
         IN  /\ sheet' = w.rows
             /\ loc' = [loc EXCEPT ![p].sheetFailed = (w.end = "threw")]
             /\ pc' = [pc EXCEPT ![p] = "finalize"]

\* step 8: await messageRef.update(...) and return the result
Finalize(p) ==
    /\ pc[p] = "finalize"
    /\ UNCHANGED <<leads, sheet, config, pure>>
    /\ \/ /\ fail(p, UpdateError)
          /\ UNCHANGED <<messages, msg, outcome, mode, queue, results, reply,
                         started>>
       \/ /\ messages' = [messages EXCEPT ![loc[p].messageRef] =
                mutate(@, [processingStatus |-> "completed",
                           aiResponse |-> loc[p].aiResponse,
                           leadId |-> loc[p].leadId])]
          /\ finish(p, [kind |-> "returned", result |-> resultOf(loc[p]),
                        ref |-> loc[p].messageRef,
                        leadFailed |-> loc[p].leadFailed,
                        sheetFailed |-> loc[p].sheetFailed])

\* the catch branch without the try/catch around its update: a rejected
\* update replaces the error of the step that failed
Catch_mask(p) ==
    /\ pc[p] = "catch"
    /\ UNCHANGED <<leads, sheet, config, pure>>
    /\ \E updateOk \in BOOLEAN :
         IF msg[p].messageId = NoId
         THEN /\ messages' = messages
              /\ finish(p, [kind |-> "raised", error |-> loc[p].error,
                            ref |-> loc[p].messageRef])
         ELSE IF msg[p].messageId \in 1..Len(messages) /\ updateOk
         THEN /\ messages' = [messages EXCEPT ![msg[p].messageId] =
                                mutate(@, [processingStatus |-> "failed",
                                           error |-> loc[p].error])]
              /\ finish(p, [kind |-> "raised", error |-> loc[p].error,
                            ref |-> loc[p].messageRef])
         ELSE /\ messages' = messages
              /\ finish(p, [kind |-> "raised", error |-> "recovery update error",
                            ref |-> loc[p].messageRef])

\* the catch branch: mark document messageData.messageId failed when the
\* id is given (an update of a missing document rejects; the rejection is
\* caught), then rethrow the error
Catch(p) ==
    /\ pc[p] = "catch"
    /\ UNCHANGED <<leads, sheet, config, pure>>
    /\ \E updateOk \in BOOLEAN :
         messages' =
            IF /\ msg[p].messageId # NoId
               /\ msg[p].messageId \in 1..Len(messages)
               /\ updateOk
            THEN [messages EXCEPT ![msg[p].messageId] =
                    mutate(@, [processingStatus |-> "failed",
                               error |-> loc[p].error])]
            ELSE messages
    /\ finish(p, [kind |-> "raised", error |-> loc[p].error,
                  ref |-> loc[p].messageRef])

Next ==
    \/ \E p \in HttpCallers, body \in Bodies : postProcess(p, body)
    \/ \E p \in BatchCallers, inputs \in Batches : batchProcessMessages(p, inputs)
    \/ \E p \in Callers : Classify(p)
    \/ \E p \in Callers : Extract(p)
    \/ \E p \in Callers : Persist(p)
    \/ \E p \in Callers : Respond(p)
    \/ \E p \in Callers : Lead(p)
    \/ \E p \in Callers : Export(p)
    \/ \E p \in Callers : Finalize(p)
    \/ \E p \in Callers : Catch(p)

Spec == Init /\ [][Next]_vars

-----------------------------------------------------------------------------
(* The pure functions on their own: Init draws the input, one action per   *)
(* function applies it                                                     *)

(* Dates and getProcessingStats                                            *)

\* a Date: year, month 0..11 as getMonth gives it, day of month, hour
isLeap(y) == y % 4 = 0 /\ (y % 100 # 0 \/ y % 400 = 0)

daysInMonth(y, m) ==
    IF m = 1 THEN (IF isLeap(y) THEN 29 ELSE 28)
    ELSE IF m \in {3, 5, 8, 10} THEN 30 ELSE 31

\* the Date a year, a month index and a day number denote once the month
\* index outside 0..11 and the day outside the month are carried over
makeDate(y, m, d, h) ==
    LET y1 == IF m < 0 THEN y - 1 ELSE IF m > 11 THEN y + 1 ELSE y
        m1 == IF m < 0 THEN m + 12 ELSE IF m > 11 THEN m - 12 ELSE m
        py == IF m1 = 0 THEN y1 - 1 ELSE y1
        pm == IF m1 = 0 THEN 11 ELSE m1 - 1
        ny == IF m1 = 11 THEN y1 + 1 ELSE y1
        nm == IF m1 = 11 THEN 0 ELSE m1 + 1
    IN  IF d < 1
        THEN [y |-> py, m |-> pm, d |-> d + daysInMonth(py, pm), h |-> h]
        ELSE IF d > daysInMonth(y1, m1)
        THEN [y |-> ny, m |-> nm, d |-> d - daysInMonth(y1, m1), h |-> h]
        ELSE [y |-> y1, m |-> m1, d |-> d, h |-> h]

\* Date.prototype.setHours(0, 0, 0, 0), setDate and setMonth
setHours0(date) == [date EXCEPT !.h = 0]
setDate(date, d) == makeDate(date.y, date.m, d, date.h)
setMonth(date, m) == makeDate(date.y, m, date.d, date.h)

\* the switch of getProcessingStats on the period keyword
startDate(period, now) ==
    CASE period = "today" -> setHours0(now)
      [] period = "week" -> setDate(now, now.d - 7)
      [] period = "month" -> setMonth(now, now.m - 1)
      [] OTHER -> setDate(now, now.d - 7)

\* the default of the route and of the parameter: a missing keyword is 'week'
periodOf(query) == IF query = Undef THEN "week" ELSE query

\* a >= b on Dates
dateGE(a, b) ==
    \/ a.y > b.y
    \/ a.y = b.y /\ a.m > b.m
    \/ a.y = b.y /\ a.m = b.m /\ a.d > b.d
    \/ a.y = b.y /\ a.m = b.m /\ a.d = b.d /\ a.h >= b.h

\* map[k] = (map[k] || 0) + 1
inc(map, k) ==
    [x \in DOMAIN map \cup {k} |->
        IF x = k THEN (IF k \in DOMAIN map THEN map[k] ELSE 0) + 1 ELSE map[x]]

\* the forEach of getProcessingStats
RECURSIVE forEachCount(_, _)
forEachCount(msgs, stats) ==
    IF msgs = <<>> THEN stats
    ELSE LET m == Head(msgs)
             s1 == [stats EXCEPT !.byStatus = inc(@, m.processingStatus)]
             s2 == IF m.intent # <<>>
                   THEN [s1 EXCEPT !.byIntent = inc(@, m.intent)] ELSE s1
             s3 == IF Truthy(m.language)
                   THEN [s2 EXCEPT !.byLanguage = inc(@, m.language)] ELSE s2
             s4 == [s3 EXCEPT !.byChannel = inc(@, m.channelType)]
         IN  forEachCount(Tail(msgs), s4)

\* the documents of a query snapshot, in store order
RECURSIVE selectDocs(_, _, _)
selectDocs(docs, organizationId, from) ==
    IF docs = <<>> THEN <<>>
    ELSE IF /\ Head(docs).organizationId = organizationId
            /\ dateGE(Head(docs).createdAt, from)
         THEN <<Head(docs)>> \o selectDocs(Tail(docs), organizationId, from)
         ELSE selectDocs(Tail(docs), organizationId, from)

\* getProcessingStats without the organization filter
getProcessingStats_allOrgs(organizationId, query, now) ==
    LET period == periodOf(query)
        from == startDate(period, now)
        found == selectDocs(messages, organizationId, from)
                    \o selectDocs(messages, CHOOSE o \in Orgs : o # organizationId, from)
    IN  [success |-> TRUE, period |-> period,
         stats |-> forEachCount(found,
                      [total |-> Len(found), byStatus |-> EmptyObj,
                       byIntent |-> EmptyObj, byLanguage |-> EmptyObj,
                       byChannel |-> EmptyObj, averageProcessingTime |-> 0])]

getProcessingStats(organizationId, query, now) ==
    LET period == periodOf(query)
        from == startDate(period, now)
        found == selectDocs(messages, organizationId, from)
    IN  [success |-> TRUE, period |-> period,
         stats |-> forEachCount(found,
                      [total |-> Len(found), byStatus |-> EmptyObj,
                       byIntent |-> EmptyObj, byLanguage |-> EmptyObj,
                       byChannel |-> EmptyObj, averageProcessingTime |-> 0])]

-----------------------------------------------------------------------------
MaxLeads == 2     \* leads created around one scored entity record

ScoreFields == {"name", "phone", "email", "date", "time", "service_type"}

\* entity records: every combination of missing, null, empty and non-empty
\* fields, the empty record and the raw-text fallback
EntityRecords ==
    [ScoreFields -> {Undef, Null, EmptyStr, "v"}]
        \cup {EmptyObj, [raw |-> <<"o","k">>]}

IntentWords ==
    {<<"b","o","o","k","i","n","g">>,
     <<"B","o","o","k","i","n","g">>,
     <<"B","O","O","K","I","N","G">>,
     <<"i","n","q","u","i","r","y">>,
     <<"I","n","Q","u","i","r","y">>,
     <<"c","o","m","p","l","a","i","n","t">>,
     <<"F","e","e","d","b","a","c","k">>,
     <<"g","e","n","e","r","a","l">>,
     <<"G","E","N","E","R","A","L">>,
     <<"r","e","f","u","n","d">>,
     <<"b","o","o","k">>,
     <<"b","o","o","k","i","n","g",".">>,
     <<"b","o","o","k"," ","i","n","g">>,
     <<>>,
     <<"b","o","o","k","i","n","g","i","n","q","u","i","r","y">>,
     <<"y","e","s">>}

Pads == {<<>>, <<" ">>, <<"\n","\t">>}

\* replies to the classification prompt: a word with white space around it
IntentReplies == {l \o w \o r : l \in Pads, w \in IntentWords, r \in Pads}

\* replies to the extraction prompt
EntityReplies ==
    {<<>>,
     <<"n","o","n","e">>,
     <<"{","}">>,
     <<"{","name",":","v","}">>,
     <<"O","k"," ","{","name",":","v",",","phone",":","w","}"," ","!">>,
     <<"{","name",":","v",",","name",":","null","}">>,
     <<"{","name",":","''",",","email",":","w",",","date",":","v",",","time",":","v","}">>,
     <<"{","name",":","v">>,
     <<"name",":","v","}">>,
     <<"}","{">>,
     <<"{","name","v","}">>,
     <<"{","name",":","v",",","}">>,
     <<"{","n","o","}">>,
     <<"{","name",":","v","}"," ","o","r"," ","{","phone",":","w","}">>,
     <<"{","{","name",":","v","}">>,
     <<"{","name",":","v","}","}">>,
     <<"{","name",":","v",",","phone",":","7","}">>}

LeadBodies == {EmptyObj, [customerName |-> "v", phone |-> "w", notes |-> "v"]}

MaxStatDocs == 3  \* Message documents in the store a statistics call reads

\* a stored Message as the statistics query sees it
statDoc(organizationId, createdAt, status, intent, language, channel) ==
    update(messageDoc([organizationId |-> organizationId, channelType |-> channel,
                       from |-> "+60", content |-> <<"o","k">>, messageId |-> NoId],
                      [NoLoc EXCEPT !.language = language, !.intent = intent]),
           [processingStatus |-> status, createdAt |-> createdAt])

\* the clock of the statistics calls that read a populated store
StatNow == [y |-> 2025, m |-> 2, d |-> 15, h |-> 13]

StatDocs ==
    {statDoc("org1", [y |-> 2025, m |-> 2, d |-> 15, h |-> 10], "completed", S_booking, "bm", "whatsapp"),
     statDoc("org1", [y |-> 2025, m |-> 2, d |-> 15, h |-> 10], "failed", S_general, "en", "email"),
     statDoc("org1", [y |-> 2025, m |-> 2, d |-> 15, h |-> 0], "completed", S_inquiry, "en", "whatsapp"),
     statDoc("org1", [y |-> 2025, m |-> 2, d |-> 12, h |-> 9], "completed", S_general, "bm", "whatsapp"),
     statDoc("org1", [y |-> 2025, m |-> 1, d |-> 23, h |-> 9], "completed", S_complaint, "bm", "whatsapp"),
     statDoc("org1", [y |-> 2025, m |-> 1, d |-> 3, h |-> 9], "processing", S_booking, "en", "whatsapp"),
     statDoc("org2", [y |-> 2025, m |-> 2, d |-> 15, h |-> 10], "completed", S_booking, "en", "whatsapp")}

StatStores == UNION {[1..n -> StatDocs] : n \in 0..MaxStatDocs}

\* the period keyword of the query string; Undef when it is left out
Periods == {"today", "week", "month", "year", Undef}

\* every hour 0 and 13 of every day of a leap year and of the year after it
Years == {2024, 2025}
Nows == {[y |-> y, m |-> m, d |-> d, h |-> h] :
            y \in Years, m \in 0..11, d \in 1..31, h \in {0, 13}}
Clock == {n \in Nows : n.d <= daysInMonth(n.y, n.m)}

MaxWords == 2     \* words of a text handed to detectLanguage

\* words the texts are made of: the marker words, two of them in other
\* cases, and words that are not markers but contain one (snake, Canada)
Words ==
    {S_saya, S_nak, S_untuk, S_dengan, S_boleh, S_ada, S_tak, S_tidak,
     <<"S","a","y","a">>, <<"N","A","K">>, <<"h","e","l","l","o">>,
     <<"s","n","a","k","e">>, <<"C","a","n","a","d","a">>, <<"2","p","m">>}

RECURSIVE joinWords(_)
joinWords(ws) ==
    IF Len(ws) = 0 THEN <<>>
    ELSE IF Len(ws) = 1 THEN ws[1]
    ELSE ws[1] \o <<" ">> \o joinWords(Tail(ws))

\* the texts: the empty text, up to MaxWords words, and a booking request
Texts ==
    {joinWords(ws) : ws \in UNION {[1..n -> Words] : n \in 0..MaxWords}}
      \cup {<<"S","a","y","a"," ","n","a","k"," ","b","u","a","t"," ",
              "a","p","p","o","i","n","t","m","e","n","t"," ",
              "u","n","t","u","k"," ","J","u","m","a","a","t">>}

\* the message summaries step 7 hands to writeMessageToSheet: the entity
\* records are those extractEntities gives for the replies of the AI service
SheetData ==
    [from : {"+60", Undef}, channel : {"whatsapp"}, message : Contents,
     intent : {S_booking, S_general},
     entities : {extractEntities(r).entities : r \in EntityReplies},
     response : {<<"o","k">>, <<>>}]

InitPure ==
    /\ \/ /\ messages = <<>>
          /\ \/ arg \in [fn : {"calculateLeadScore"}, input : EntityRecords]
             \/ arg \in [fn : {"detectLanguage"}, input : Texts]
             \/ arg \in [fn : {"writeMessageToSheet"},
                         input : [organizationId : Orgs, data : SheetData]]
             \/ arg \in [fn : {"classifyIntent"}, input : IntentReplies]
             \/ arg \in [fn : {"extractEntities"}, input : EntityReplies]
             \/ arg \in [fn : {"getProcessingStats"},
                         input : [organizationId : {"org1"}, period : Periods,
                                  now : Clock]]
       \/ /\ messages \in StatStores
          /\ arg \in [fn : {"getProcessingStats"},
                      input : [organizationId : Orgs, period : Periods,
                               now : {StatNow}]]
    /\ leads = <<>>
    /\ sheet = <<>>
    /\ pc = [p \in Callers |-> "idle"]
    /\ msg = [p \in Callers |-> NoMsg]
    /\ loc = [p \in Callers |-> NoLoc]
    /\ outcome = [p \in Callers |-> NoOutcome]
    /\ mode = [p \in Callers |-> "none"]
    /\ queue = [p \in Callers |-> <<>>]
    /\ results = [p \in Callers |-> <<>>]
    /\ reply = [p \in Callers |-> [status |-> 0]]
    /\ started = 0
    /\ fpc = "in"
    /\ ret = <<>>
    /\ IF arg.fn = "writeMessageToSheet"
       THEN sheetsReady \in BOOLEAN /\ orgSheets \in [Orgs -> BOOLEAN]
       ELSE sheetsReady = FALSE /\ orgSheets = [o \in Orgs |-> FALSE]

pipeline == <<pc, msg, loc, outcome, mode, queue, results, reply, started>>

applyCalculateLeadScore ==
    /\ fpc = "in" /\ arg.fn = "calculateLeadScore"
    /\ ret' = calculateLeadScore(arg.input)
    /\ fpc' = "out"
    /\ UNCHANGED <<arg, stores, config, pipeline>>

applyClassifyIntent ==
    /\ fpc = "in" /\ arg.fn = "classifyIntent"
    /\ ret' = classifyIntent(arg.input)
    /\ fpc' = "out"
    /\ UNCHANGED <<arg, stores, config, pipeline>>

applyExtractEntities ==
    /\ fpc = "in" /\ arg.fn = "extractEntities"
    /\ ret' = extractEntities(arg.input)
    /\ fpc' = "out"
    /\ UNCHANGED <<arg, stores, config, pipeline>>

\* detectLanguage called on the text, and then called again on the same text
applyDetectLanguage ==
    /\ fpc \in {"in", "out"} /\ arg.fn = "detectLanguage"
    /\ ret' = Append(ret, detectLanguage(arg.input))
    /\ fpc' = IF fpc = "in" THEN "out" ELSE "again"
    /\ UNCHANGED <<arg, stores, config, pipeline>>

\* sheetsService.writeMessageToSheet; ret records how the call ended and
\* what the organization read and the append did
applyWriteMessageToSheet ==
    /\ fpc = "in" /\ arg.fn = "writeMessageToSheet"
    /\ \E readOk \in BOOLEAN, appendOk \in BOOLEAN :
         LET w == writeMessageToSheet(arg.input.organizationId, arg.input.data,
                                      readOk, appendOk)
         IN  /\ sheet' = w.rows
             /\ ret' = [end |-> w.end, readOk |-> readOk, appendOk |-> appendOk]
    /\ fpc' = "out"
    /\ UNCHANGED <<arg, messages, leads, config, pipeline>>

\* GET /stats/overview
applyGetProcessingStats ==
    /\ fpc = "in" /\ arg.fn = "getProcessingStats"
    /\ ret' = getProcessingStats(arg.input.organizationId, arg.input.period,
                                 arg.input.now)
    /\ fpc' = "out"
    /\ UNCHANGED <<arg, stores, config, pipeline>>

\* the lead createLeadFromMessage adds for the entity record
addScoredLead(org) ==
    /\ arg.fn = "calculateLeadScore"
    /\ Len(leads) < MaxLeads
    /\ leads' = Append(leads, leadData(org, NoId, arg.input, "+60"))
    /\ UNCHANGED <<messages, sheet, config, pure, pipeline>>

\* POST /api/leads
createLead(org, body) ==
    /\ arg.fn = "calculateLeadScore"
    /\ Len(leads) < MaxLeads
    /\ leads' = Append(leads, manualLeadData(org, body))
    /\ UNCHANGED <<messages, sheet, config, pure, pipeline>>

NextPure ==
    \/ applyCalculateLeadScore
    \/ applyClassifyIntent
    \/ applyExtractEntities
    \/ applyDetectLanguage
    \/ applyWriteMessageToSheet
    \/ applyGetProcessingStats
    \/ \E org \in Orgs : addScoredLead(org)
    \/ \E org \in Orgs, body \in LeadBodies : createLead(org, body)

PureSpec == InitPure /\ [][NextPure]_vars
-----------------------------------------------------------------------------
(* The lead routes: leads are created by the pipeline and by POST          *)
(* /api/leads, and PUT /api/leads/:id/status changes their status          *)

validStatuses == <<"new", "contacted", "qualified", "converted", "lost">>

\* the status values of the request bodies; Undef when the field is left out
StatusInputs ==
    {"new", "contacted", "qualified", "converted", "lost",
     "archived", "NEW", EmptyStr, Undef}

Users == {"u1"}

\* the entity records the pipeline creates leads from
LeadEntities == {EmptyObj, [name |-> "v", phone |-> "w", date |-> "v"]}

\* ids of the requests: the stored leads and one id no lead has
LeadIds == 1..(MaxLeads + 1)

InitLead ==
    /\ messages = <<>>
    /\ leads = <<>>
    /\ sheet = <<>>
    /\ sheetsReady = FALSE
    /\ orgSheets = [o \in Orgs |-> FALSE]
    /\ pc = [p \in Callers |-> "idle"]
    /\ msg = [p \in Callers |-> NoMsg]
    /\ loc = [p \in Callers |-> NoLoc]
    /\ outcome = [p \in Callers |-> NoOutcome]
    /\ mode = [p \in Callers |-> "none"]
    /\ queue = [p \in Callers |-> <<>>]
    /\ results = [p \in Callers |-> <<>>]
    /\ reply = [p \in Callers |-> [status |-> 0]]
    /\ started = 0
    /\ fpc = "in"
    /\ ret = <<>>
    /\ arg \in [fn : {"calculateLeadScore"}, input : LeadEntities]

\* the route storing whatever status the body carries
putLeadStatus_noValidation(p, id, userId, status, updateOk) ==
    /\ UNCHANGED <<messages, sheet, config, pure, pc, msg, loc, outcome, mode,
                   queue, results, started>>
    /\ IF id \in 1..Len(leads) /\ updateOk
       THEN /\ leads' = [leads EXCEPT ![id] =
                            update(@, [status |-> status, updatedBy |-> userId])]
            /\ reply' = [reply EXCEPT ![p] =
                  [status |-> 200, success |-> TRUE,
                   message |-> "Status updated successfully"]]
       ELSE /\ leads' = leads
            /\ reply' = [reply EXCEPT ![p] =
                  [status |-> 500, success |-> FALSE,
                   error |-> "Failed to update status"]]

\* PUT /api/leads/:id/status; the update of a document that does not exist,
\* or that the store fails to write, rejects
putLeadStatus(p, id, userId, status, updateOk) ==
    /\ UNCHANGED <<messages, sheet, config, pure, pc, msg, loc, outcome, mode,
                   queue, results, started>>
    /\ IF ~(\E i \in 1..Len(validStatuses) : validStatuses[i] = status)
       THEN /\ leads' = leads
            /\ reply' = [reply EXCEPT ![p] =
                  [status |-> 400, success |-> FALSE, error |-> "Invalid status"]]
       ELSE IF id \in 1..Len(leads) /\ updateOk
       THEN /\ leads' = [leads EXCEPT ![id] =
                            update(@, [status |-> status, updatedBy |-> userId])]
            /\ reply' = [reply EXCEPT ![p] =
                  [status |-> 200, success |-> TRUE,
                   message |-> "Status updated successfully"]]
       ELSE /\ leads' = leads
            /\ reply' = [reply EXCEPT ![p] =
                  [status |-> 500, success |-> FALSE,
                   error |-> "Failed to update status"]]

NextLead ==
    \/ \E org \in Orgs : addScoredLead(org)
    \/ \E org \in Orgs, body \in LeadBodies : createLead(org, body)
    \/ \E p \in HttpCallers, id \in LeadIds, userId \in Users,
          status \in StatusInputs, updateOk \in BOOLEAN :
          putLeadStatus(p, id, userId, status, updateOk)

LeadSpec == InitLead /\ [][NextLead]_vars
-----------------------------------------------------------------------------
(* Authenticated reads: authenticateUser, GET /api/messages/:id and        *)
(* GET /api/leads/:id                                                      *)

\* the users collection: u1 and u2 are active users of org1 and org2, u3 is
\* deactivated, u4 has a valid token but no document
users ==
    [u1 |-> [isActive |-> TRUE, organizationId |-> "org1"],
     u2 |-> [isActive |-> TRUE, organizationId |-> "org2"],
     u3 |-> [isActive |-> FALSE, organizationId |-> "org1"]]

\* ID tokens: one per uid, an expired one, a malformed one and one that
\* fails for another reason; "" is the token of the header 'Bearer '
Tokens == {"u1", "u2", "u3", "u4", "expired", "invalid", "garbage", EmptyStr}

\* auth.verifyIdToken: resolves with the uid or rejects with an error code
verifyIdToken(idToken) ==
    CASE idToken \in {"u1", "u2", "u3", "u4"} -> [ok |-> TRUE, uid |-> idToken]
      [] idToken = "expired" -> [ok |-> FALSE, code |-> "auth/id-token-expired"]
      [] idToken = "invalid" -> [ok |-> FALSE, code |-> "auth/invalid-id-token"]
      [] OTHER -> [ok |-> FALSE, code |-> "auth/argument-error"]

\* Authorization headers as scheme prefix and rest; <<>> is a missing or
\* empty header
Headers ==
    {<<>>, <<"Basic ", "u1">>, <<"bearer ", "u1">>}
        \cup {<<"Bearer ", t>> : t \in Tokens}

\* authenticateUser: next is TRUE when the middleware calls next(); readOk is
\* whether the read of the user document resolves
authenticateUser(authHeader, readOk) ==
    IF Len(authHeader) = 0 \/ authHeader[1] # "Bearer "
    THEN [next |-> FALSE, status |-> 401, success |-> FALSE,
          error |-> "No token provided. Please include Bearer token in Authorization header."]
    ELSE LET decodedToken == verifyIdToken(authHeader[2])
         IN  IF ~decodedToken.ok
             THEN [next |-> FALSE, status |-> 401, success |-> FALSE,
                   error |-> CASE decodedToken.code = "auth/id-token-expired"
                                    -> "Token expired. Please login again."
                               [] decodedToken.code = "auth/invalid-id-token"
                                    -> "Invalid token. Please login again."
                               [] OTHER -> "Authentication failed"]
             ELSE IF ~readOk
             THEN [next |-> FALSE, status |-> 401, success |-> FALSE,
                   error |-> "Authentication failed"]
             ELSE IF decodedToken.uid \notin DOMAIN users
             THEN [next |-> FALSE, status |-> 404, success |-> FALSE,
                   error |-> "User not found in database"]
             ELSE IF ~users[decodedToken.uid].isActive
             THEN [next |-> FALSE, status |-> 403, success |-> FALSE,
                   error |-> "User account is deactivated"]
             ELSE [next |-> TRUE, userId |-> decodedToken.uid,
                   organizationId |-> users[decodedToken.uid].organizationId]

\* GET /:id of a collection behind authenticateUser; docOk is whether the
\* read of the document resolves
getById(collection, notFound, failed, req, readOk, docOk) ==
    LET a == authenticateUser(req.authorization, readOk)
    IN  IF ~a.next THEN a
        ELSE IF ~docOk
        THEN [next |-> TRUE, status |-> 500, success |-> FALSE, error |-> failed]
        ELSE IF req.id \notin 1..Len(collection)
        THEN [next |-> TRUE, status |-> 404, success |-> FALSE, error |-> notFound]
        ELSE IF collection[req.id].organizationId # a.organizationId
        THEN [next |-> TRUE, status |-> 403, success |-> FALSE,
              error |-> "Access denied"]
        ELSE [next |-> TRUE, status |-> 200, success |-> TRUE,
              id |-> req.id, doc |-> collection[req.id]]

\* GET /api/messages/:id answering with the document whatever its organization
getMessageById_noOrgCheck(req, readOk, docOk) ==
    LET a == authenticateUser(req.authorization, readOk)
    IN  IF ~a.next THEN a
        ELSE IF ~docOk
        THEN [next |-> TRUE, status |-> 500, success |-> FALSE,
              error |-> "Failed to retrieve message"]
        ELSE IF req.id \notin 1..Len(messages)
        THEN [next |-> TRUE, status |-> 404, success |-> FALSE,
              error |-> "Message not found"]
        ELSE [next |-> TRUE, status |-> 200, success |-> TRUE,
              id |-> req.id, doc |-> messages[req.id]]

\* GET /api/messages/:id
getMessageById(req, readOk, docOk) ==
    getById(messages, "Message not found", "Failed to retrieve message",
            req, readOk, docOk)

\* GET /api/leads/:id
getLeadById(req, readOk, docOk) ==
    getById(leads, "Lead not found", "Failed to retrieve lead", req, readOk, docOk)

\* ids of the requests: the stored documents and one id no document has
DocIds == 1..3

Requests == [authorization : Headers, id : DocIds]

\* a Message and a Lead of each organization are stored
InitRead ==
    /\ messages = <<statDoc("org1", StatNow, "completed", S_booking, "bm", "whatsapp"),
                    statDoc("org2", StatNow, "completed", S_inquiry, "en", "whatsapp")>>
    /\ leads = <<leadData("org1", 1, [name |-> "v"], "+60"),
                 leadData("org2", 2, EmptyObj, "+60")>>
    /\ sheet = <<>>
    /\ sheetsReady = FALSE
    /\ orgSheets = [o \in Orgs |-> FALSE]
    /\ pc = [p \in Callers |-> "idle"]
    /\ msg = [p \in Callers |-> NoMsg]
    /\ loc = [p \in Callers |-> NoLoc]
    /\ outcome = [p \in Callers |-> NoOutcome]
    /\ mode = [p \in Callers |-> "none"]
    /\ queue = [p \in Callers |-> <<>>]
    /\ results = [p \in Callers |-> <<>>]
    /\ reply = [p \in Callers |-> [status |-> 0]]
    /\ started = 0
    /\ fpc = "in"
    /\ ret = <<>>
    /\ arg \in [fn : {"getMessageById", "getLeadById"}, input : Requests]

\* ret is the response, with the outcomes of the two store reads
applyGetMessageById ==
    /\ fpc = "in" /\ arg.fn = "getMessageById"
    /\ \E readOk \in BOOLEAN, docOk \in BOOLEAN :
         ret' = [response |-> getMessageById(arg.input, readOk, docOk),
                 readOk |-> readOk, docOk |-> docOk]
    /\ fpc' = "out"
    /\ UNCHANGED <<arg, stores, config, pipeline>>

applyGetLeadById ==
    /\ fpc = "in" /\ arg.fn = "getLeadById"
    /\ \E readOk \in BOOLEAN, docOk \in BOOLEAN :
         ret' = [response |-> getLeadById(arg.input, readOk, docOk),
                 readOk |-> readOk, docOk |-> docOk]
    /\ fpc' = "out"
    /\ UNCHANGED <<arg, stores, config, pipeline>>

NextRead ==
    \/ applyGetMessageById
    \/ applyGetLeadById

ReadSpec == InitRead /\ [][NextRead]_vars



-----------------------------------------------------------------------------
(* Properties                                                              *)

\* caller p takes a step (every action moves the position of its caller)
acts(p) == pc'[p] # pc[p]

\* the run of caller p ends in this step with a returned result
returns(p) == pc[p] = "finalize" /\ pc'[p] \notin {"finalize", "catch"}

\* C1: every Message a run persisted is in a terminal status once that run
\* has returned or raised: a Message no running run owns is 'completed' or
\* 'failed', never 'processing'
C1_TerminalStatus ==
    \A m \in 1..Len(messages) :
        (\A p \in Callers : ~(Running(p) /\ loc[p].messageRef = m))
            => messages[m].processingStatus \in {"completed", "failed"}

\* C2: when a call outside steps 6 and 7 fails, the run raises that error
\* and the Message the run persisted is marked 'failed' with the error
\* message attached
C2_FailureMarksMessage ==
    [][\A p \in Callers :
          (pc[p] = "catch" /\ acts(p))
              => /\ outcome'[p].kind = "raised"
                 /\ outcome'[p].error = loc[p].error
                 /\ loc[p].messageRef # NoId
                      => /\ messages'[loc[p].messageRef].processingStatus = "failed"
                         /\ messages'[loc[p].messageRef].error = loc[p].error]_vars

\* C3: an error of the spreadsheet export never leaves step 7: the run goes
\* on to the final update with its locals and both collections untouched,
\* and when that update succeeds the run returns success:true with the id
\* of its Message, the Message is 'completed', and the result is the one
\* the run's locals give without regard to the export
C3_ExportContained ==
    [][\A p \in Callers :
          /\ (pc[p] = "export" /\ acts(p))
                => /\ pc'[p] = "finalize"
                   /\ messages' = messages /\ leads' = leads
                   /\ [loc'[p] EXCEPT !.sheetFailed = FALSE]
                         = [loc[p] EXCEPT !.sheetFailed = FALSE]
          /\ (returns(p) /\ loc[p].sheetFailed)
                => /\ outcome'[p].kind = "returned"
                   /\ outcome'[p].result.success = TRUE
                   /\ outcome'[p].result.messageId = loc[p].messageRef
                   /\ outcome'[p].result.messageId \in 1..Len(messages')
                   /\ messages'[loc[p].messageRef].processingStatus = "completed"
                   /\ outcome'[p].result =
                         [success |-> TRUE, messageId |-> loc[p].messageRef,
                          language |-> loc[p].language, intent |-> loc[p].intent,
                          entities |-> loc[p].entities,
                          response |-> loc[p].aiResponse,
                          leadId |-> loc[p].leadId]]_vars

\* a run returned although its export raised
C3_Witness ==
    \E p \in Callers :
        /\ outcome[p].kind = "returned"
        /\ outcome[p].sheetFailed
        /\ outcome[p].result.success
        /\ messages[outcome[p].ref].processingStatus = "completed"

\* C4: a rejected add of the Lead does not propagate: step 6 always goes on
\* to the export, with leadId null and no Lead added, and when the final
\* update succeeds the run returns success:true with leadId null and the
\* Message is 'completed' with leadId null
C4_LeadFailureContained ==
    [][\A p \in Callers :
          /\ (pc[p] = "lead" /\ acts(p))
                => /\ pc'[p] = "export"
                   /\ loc'[p].leadFailed
                        => (loc'[p].leadId = NoId /\ leads' = leads)
          /\ (pc[p] = "export" /\ acts(p) /\ loc[p].leadFailed)
                => (pc'[p] = "finalize" /\ loc'[p].leadFailed
                    /\ loc'[p].leadId = NoId)
          /\ (returns(p) /\ loc[p].leadFailed)
                => /\ outcome'[p].kind = "returned"
                   /\ outcome'[p].result.success = TRUE
                   /\ outcome'[p].result.leadId = NoId
                   /\ messages'[loc[p].messageRef].processingStatus = "completed"
                   /\ messages'[loc[p].messageRef].leadId = NoId]_vars

\* a run returned although the add of its Lead was rejected
C4_Witness ==
    \E p \in Callers :
        /\ outcome[p].kind = "returned"
        /\ outcome[p].leadFailed
        /\ outcome[p].result.leadId = NoId
        /\ messages[outcome[p].ref].processingStatus = "completed"

\* a reply in which a {...} substring is found and parses
ValidJsonShaped(r) ==
    LET opens == {i \in 1..Len(r) : r[i] = "{"}
        closes == {i \in 1..Len(r) : r[i] = "}"}
    IN  \E lo \in opens, hi \in closes :
           /\ \A i \in opens : lo <= i
           /\ \A i \in closes : i <= hi
           /\ lo < hi
           /\ JSONparse(SubSeq(r, lo, hi)).ok

\* C5: for every reply that is not valid JSON-shaped text, with or without
\* a {...} substring, extractEntities returns {raw: <the full reply text>}
C5_RawFallback ==
    (fpc = "out" /\ arg.fn = "extractEntities" /\ ~ValidJsonShaped(arg.input))
        => ret.entities = [raw |-> generateResponse(arg.input)]

\* the record with field f made present
withField(e, f) ==
    [k \in DOMAIN e \cup {f} |-> IF k = f THEN "v" ELSE e[k]]

\* C6: the score of every entity record is in [50,100], making one more of
\* the six fields present never lowers it, and every Lead in the store,
\* created by the pipeline or manually, has a score in [50,100]
C6_ScoreRange ==
    /\ (fpc = "out" /\ arg.fn = "calculateLeadScore")
          => /\ ret \in 50..100
             /\ \A f \in ScoreFields :
                   ~Truthy(Get(arg.input, f))
                      => calculateLeadScore(withField(arg.input, f)) >= ret
    /\ \A i \in 1..Len(leads) : leads[i].score \in 50..100

\* a record with all six fields was scored at the cap, and the store holds
\* a pipeline Lead with that score and a manual Lead
C6_Witness ==
    /\ fpc = "out" /\ arg.fn = "calculateLeadScore" /\ ret = 100
    /\ \A f \in ScoreFields : Truthy(Get(arg.input, f))
    /\ \E i, j \in 1..Len(leads) :
          /\ leads[i].score = 100
          /\ leads[j].preferredDate = Undef /\ leads[j].score = 50

present(e, f) == IF Get(e, f) \in {Undef, Null, EmptyStr} THEN 0 ELSE 1

\* C7: the score is min(100, 50 + 10*name + 15*phone + 15*email + 10*date
\* + 10*time + 10*service_type), each term 1 for a present field and 0 for
\* a missing one; a record with no structured field scores exactly 50
C7_ScoreFormula ==
    (fpc = "out" /\ arg.fn = "calculateLeadScore")
        => LET e == arg.input
               sum == 50 + 10 * present(e, "name") + 15 * present(e, "phone")
                         + 15 * present(e, "email") + 10 * present(e, "date")
                         + 10 * present(e, "time")
                         + 10 * present(e, "service_type")
           IN  /\ ret = IF sum > 100 THEN 100 ELSE sum
               /\ (DOMAIN e \cap ScoreFields = {}) => ret = 50

\* the raw-text fallback was scored 50
C7_Witness ==
    /\ fpc = "out" /\ arg.fn = "calculateLeadScore"
    /\ arg.input = [raw |-> <<"o","k">>]
    /\ ret = 50

Labels == {S_booking, S_inquiry, S_complaint, S_feedback, S_general}

\* reply r is label lab written in any case with white space around it
spells(r, lab) ==
    \E lo \in 1..(Len(r) + 1) :
        /\ lo + Len(lab) - 1 <= Len(r)
        /\ \A i \in 1..Len(r) :
              IF i < lo \/ i > lo + Len(lab) - 1
              THEN r[i] \in WhiteSpace
              ELSE \E u \in 1..Len(UpperChars) :
                      /\ LowerChars[u] = lab[i - lo + 1]
                      /\ r[i] \in {UpperChars[u], LowerChars[u]}

\* C8: for every reply classifyIntent returns one of the five labels: the
\* label the reply spells once lower-cased and trimmed, and 'general' when
\* it spells none
C8_IntentInLabels ==
    (fpc = "out" /\ arg.fn = "classifyIntent")
        => /\ ret.intent \in Labels
           /\ \A lab \in Labels : spells(arg.input, lab) => ret.intent = lab
           /\ (\A lab \in Labels : ~spells(arg.input, lab))
                 => ret.intent = S_general

\* a padded upper-case reply was classified as booking
C8_Witness ==
    /\ fpc = "out" /\ arg.fn = "classifyIntent"
    /\ arg.input = <<"\n","\t","B","O","O","K","I","N","G"," ">>
    /\ ret.intent = S_booking

\* C9: the pipeline creates a Lead only for booking and inquiry: a step of a
\* run with another intent adds no Lead, and such a run stores and returns
\* leadId null
C9_LeadOnlyForLeadIntents ==
    [][\A p \in Callers :
          (acts(p) /\ pc[p] \in {"respond", "lead", "export", "finalize", "catch"}
                   /\ loc[p].intent \notin {S_booking, S_inquiry})
              => /\ leads' = leads
                 /\ returns(p)
                      => /\ outcome'[p].result.leadId = NoId
                         /\ messages'[loc[p].messageRef].leadId = NoId]_vars

\* a run classified as general returned without a Lead
C9_Witness ==
    \E p \in Callers :
        /\ outcome[p].kind = "returned"
        /\ outcome[p].result.intent = S_general
        /\ outcome[p].result.leadId = NoId
        /\ messages[outcome[p].ref].leadId = NoId
        /\ \A i \in 1..Len(leads) : leads[i].sourceMessageId # outcome[p].ref

\* C10: every Message document has at most one Lead whose sourceMessageId
\* refers to it
C10_AtMostOneLead ==
    \A m \in 1..Len(messages) :
        Cardinality({i \in 1..Len(leads) : leads[i].sourceMessageId = m}) <= 1

\* two Messages, each with its own Lead
C10_Witness ==
    /\ Len(messages) >= 2
    /\ \E i, j \in 1..Len(leads) :
          /\ i # j
          /\ leads[i].sourceMessageId = 1
          /\ leads[j].sourceMessageId = 2

\* the runs whose result the state still holds: <<p, 0>> is the request of
\* an HTTP caller, <<p, i>> the i-th item of the batch of a batch caller
RunKeys == {<<p, i>> : p \in Callers, i \in 0..MaxBatch}

succeeded(k) ==
    IF k[2] = 0
    THEN mode[k[1]] = "http" /\ outcome[k[1]].kind = "returned"
    ELSE /\ mode[k[1]] = "batch"
         /\ k[2] <= Len(results[k[1]])
         /\ results[k[1]][k[2]].success

resultAt(k) ==
    IF k[2] = 0 THEN outcome[k[1]].result ELSE results[k[1]][k[2]]

\* the external messageId of a run that returned, as its Message records it
externalIdOf(k) == messages[resultAt(k).messageId].externalMessageId

\* C11: two successful runs with the same external messageId have created
\* two distinct Message documents, and two distinct Leads, each linked to
\* the Message of its run, when both intents are booking or inquiry and both
\* lead creations succeeded
C11_NotIdempotent ==
    \A k1, k2 \in RunKeys :
        (/\ k1 # k2 /\ succeeded(k1) /\ succeeded(k2)
         /\ resultAt(k1).messageId \in 1..Len(messages)
         /\ resultAt(k2).messageId \in 1..Len(messages)
         /\ externalIdOf(k1) = externalIdOf(k2))
            => /\ resultAt(k1).messageId # resultAt(k2).messageId
               /\ (/\ resultAt(k1).intent \in {S_booking, S_inquiry}
                   /\ resultAt(k2).intent \in {S_booking, S_inquiry}
                   /\ resultAt(k1).leadId # NoId
                   /\ resultAt(k2).leadId # NoId)
                     => /\ resultAt(k1).leadId # resultAt(k2).leadId
                        /\ \A k \in {k1, k2} :
                              /\ resultAt(k).leadId \in 1..Len(leads)
                              /\ leads[resultAt(k).leadId].sourceMessageId
                                    = resultAt(k).messageId

\* a request and a batch item with the same external id both returned, each
\* with a Message and a Lead of its own
C11_Witness ==
    \E k1, k2 \in RunKeys :
        /\ k1[2] = 0 /\ k2[2] = 1
        /\ succeeded(k1) /\ succeeded(k2)
        /\ externalIdOf(k1) = 1 /\ externalIdOf(k2) = 1
        /\ resultAt(k1).messageId # resultAt(k2).messageId
        /\ resultAt(k1).leadId # NoId /\ resultAt(k2).leadId # NoId
        /\ resultAt(k1).leadId # resultAt(k2).leadId

\* C12: batchProcessMessages never aborts on an item's failure: every item
\* that ends adds one result at the end of the results, failed exactly when
\* its processMessage raised, and the loop goes on with the next message;
\* the summary has one result per input in input order, total = number of
\* inputs and processed + failed = total
C12_BatchNeverAborts ==
    [][\A p \in Callers :
          /\ (mode'[p] = "batch" /\ results'[p] # results[p] /\ pc[p] # "idle")
                => LET n == Len(results'[p])
                       item == results'[p][n]
                   IN  /\ n = Len(results[p]) + 1
                       /\ SubSeq(results'[p], 1, n - 1) = results[p]
                       /\ item.success = (outcome'[p].kind = "returned")
                       /\ ~item.success = (pc[p] = "catch")
                       /\ ~item.success
                            => /\ item.messageId = queue[p][n].messageId
                               /\ item.error = loc[p].error
                       /\ item.success
                            => messages'[item.messageId].externalMessageId
                                  = queue[p][n].messageId
                       /\ IF n < Len(queue[p])
                          THEN pc'[p] = "classify" /\ msg'[p] = queue[p][n + 1]
                          ELSE pc'[p] = "done"
          /\ (mode'[p] = "batch" /\ pc'[p] = "done" /\ pc[p] # "done")
                => LET inputs == IF pc[p] = "idle" THEN queue'[p] ELSE queue[p]
                       rs == reply'[p].results
                   IN  /\ reply'[p].success = TRUE
                       /\ reply'[p].total = Len(inputs)
                       /\ Len(rs) = Len(inputs)
                       /\ rs = results'[p]
                       /\ reply'[p].processed + reply'[p].failed = reply'[p].total
                       /\ reply'[p].failed
                            = Cardinality({i \in 1..Len(rs) : ~rs[i].success})]_vars

\* a batch of two whose first item raised and whose second item returned
C12_Witness ==
    \E p \in Callers :
        /\ mode[p] = "batch" /\ pc[p] = "done"
        /\ reply[p].total = 2 /\ reply[p].processed = 1 /\ reply[p].failed = 1
        /\ ~reply[p].results[1].success
        /\ reply[p].results[2].success

\* C13: the items of a batch are processed one at a time: the pipeline that
\* takes a step or writes to a store is the one of the first item without a
\* result, a result is recorded only when that pipeline has returned or
\* raised, and the next item is entered only in that same step
C13_BatchSequential ==
    [][\A p \in Callers :
          (mode'[p] = "batch" /\ pc[p] # "idle"
                              /\ (acts(p) \/ results'[p] # results[p]))
              => LET n == Len(results[p]) + 1
                 IN  /\ Running(p)
                     /\ n <= Len(queue[p])
                     /\ msg[p] = queue[p][n]
                     /\ Len(messages') > Len(messages)
                          => messages'[Len(messages')].externalMessageId
                                = queue[p][n].messageId
                     /\ Len(leads') > Len(leads)
                          => leads'[Len(leads')].sourceMessageId
                                = loc[p].messageRef
                     /\ results'[p] # results[p]
                          => /\ pc[p] \in {"finalize", "catch"}
                             /\ outcome'[p].kind \in {"returned", "raised"}
                             /\ Len(results'[p]) = n
                     /\ pc'[p] = "classify"
                          => /\ pc[p] \in {"finalize", "catch"}
                             /\ Len(results'[p]) = n
                             /\ msg'[p] = queue[p][n + 1]
                             /\ loc'[p].messageRef = NoId]_vars

\* the second item of a batch is in its pipeline, the first has returned
C13_Witness ==
    \E p \in Callers :
        /\ mode[p] = "batch"
        /\ Len(results[p]) = 1 /\ results[p][1].success
        /\ pc[p] = "export"
        /\ loc[p].messageRef # NoId
        /\ loc[p].messageRef # results[p][1].messageId

\* C14: a Message document is written only by the run that created it: a
\* step of a run changes no Message other than the one the run persisted
C14_OnlyOwnerWrites ==
    [][\A p \in Callers :
          acts(p) => \A m \in 1..Len(messages) :
                        messages'[m] # messages[m] => loc[p].messageRef = m]_vars
\* the Messages of the organization created in the window of the call
inWindow ==
    {i \in 1..Len(messages) :
        /\ messages[i].organizationId = arg.input.organizationId
        /\ dateGE(messages[i].createdAt,
                  startDate(periodOf(arg.input.period), arg.input.now))}

\* the mapping counts, per value of the field, the Messages of the window
countsBy(map, field) ==
    /\ DOMAIN map = {messages[i][field] : i \in inWindow}
    /\ \A k \in DOMAIN map :
          map[k] = Cardinality({i \in inWindow : messages[i][field] = k})

\* the sum of the counts of a mapping
RECURSIVE sumOf(_)
sumOf(map) ==
    IF DOMAIN map = {} THEN 0
    ELSE LET k == CHOOSE x \in DOMAIN map : TRUE
         IN  map[k] + sumOf([x \in DOMAIN map \ {k} |-> map[x]])

\* C15: the statistics call returns the number of Messages of the organization
\* in the window as total, and byStatus, byChannel, byIntent and byLanguage
\* count exactly those Messages per value of the field, so each mapping sums
\* to total (every stored Message carries an intent and a language).
C15_StatsCounts ==
    (fpc = "out" /\ arg.fn = "getProcessingStats") =>
        /\ ret.success = TRUE
        /\ ret.period = periodOf(arg.input.period)
        /\ ret.stats.total = Cardinality(inWindow)
        /\ sumOf(ret.stats.byStatus) = ret.stats.total
        /\ countsBy(ret.stats.byStatus, "processingStatus")
        /\ countsBy(ret.stats.byChannel, "channelType")
        /\ countsBy(ret.stats.byIntent, "intent")
        /\ countsBy(ret.stats.byLanguage, "language")
        /\ ret.stats.averageProcessingTime = 0

C15_Witness ==
    /\ fpc = "out" /\ arg.fn = "getProcessingStats"
    /\ arg.input.period = "today"
    /\ Len(messages) = 3
    /\ ret.stats.total = 3
    /\ ret.stats.byStatus = [completed |-> 2, failed |-> 1]

\* the days from 1 January 2023 to the Date
dayNumber(date) ==
    LET RECURSIVE daysBefore(_)
        daysBefore(m) == IF m = 0 THEN 0
                         ELSE daysInMonth(date.y, m - 1) + daysBefore(m - 1)
    IN  365 * (date.y - 2023) + Cardinality({k \in 2023..(date.y - 1) : isLeap(k)})
            + daysBefore(date.m) + date.d

\* the Date is a day of the calendar
isDate(date) ==
    date.m \in 0..11 /\ date.d \in 1..daysInMonth(date.y, date.m) /\ date.h \in 0..23

\* the same day and hour one calendar month earlier, or the last day of that
\* month when it is shorter
monthBefore(date) ==
    LET py == IF date.m = 0 THEN date.y - 1 ELSE date.y
        pm == IF date.m = 0 THEN 11 ELSE date.m - 1
    IN  [y |-> py, m |-> pm, d |-> Min(date.d, daysInMonth(py, pm)), h |-> date.h]

\* the window start is exactly 7 days before now
weekBefore(s, now) ==
    isDate(s) /\ s.h = now.h /\ dayNumber(s) = dayNumber(now) - 7

\* C16: the window of a statistics call starts at midnight of the current day
\* for 'today', 7 days before now for 'week', one calendar month before now
\* for 'month', and 7 days before now for a missing or any other keyword.
C16_PeriodWindow ==
    (fpc = "out" /\ arg.fn = "getProcessingStats") =>
        LET now == arg.input.now
            s == startDate(periodOf(arg.input.period), now)
        IN  CASE arg.input.period = "today" -> s = [now EXCEPT !.h = 0]
              [] arg.input.period = "month" -> s = monthBefore(now)
              [] OTHER -> weekBefore(s, now)

\* the four required fields of a message are all given
complete(data) ==
    /\ Truthy(data.organizationId) /\ Truthy(data.channelType)
    /\ Truthy(data.from) /\ data.content # <<>>

\* C17: a request to POST /messages/process enters the pipeline only with
\* organizationId, channelType, from and content all given; a request missing
\* one of them is answered 400 with success false, and that step starts no
\* run (nothing is classified, extracted or generated afterwards) and
\* creates or changes no Message, Lead or sheet row.
C17_MissingFieldsRejected ==
    [][\A p \in HttpCallers :
          (pc[p] = "idle" /\ acts(p)) =>
             \/ /\ pc'[p] = "classify"
                /\ complete(msg'[p])
                /\ reply'[p] = reply[p]
             \/ /\ pc'[p] = "done"
                /\ reply'[p] = [status |-> 400, success |-> FALSE,
                                error |-> MissingFields]
                /\ UNCHANGED <<messages, leads, sheet, started, msg, loc, outcome>>]_vars

C17_Witness ==
    /\ pc["c1"] = "done"
    /\ reply["c1"].status = 400
    /\ outcome["c1"].kind = "none"
    /\ messages = <<>> /\ leads = <<>>
    /\ started = 0

\* C18: a run of processMessage that raises is answered to the caller of
\* POST /messages/process with status 500, success false and the fixed text
\* 'Failed to process message', whatever the error was; a run that returns is
\* answered 200 with success true, also when its sheet export or its lead
\* creation failed.
C18_GenericFailureReply ==
    [][\A p \in HttpCallers :
          /\ (pc[p] = "catch" /\ acts(p)) =>
                reply'[p] = [status |-> 500, success |-> FALSE,
                             error |-> "Failed to process message"]
          /\ returns(p) =>
                /\ reply'[p].status = 200
                /\ reply'[p].success = TRUE]_vars

C18_Witness ==
    /\ outcome["c1"].kind = "raised"
    /\ outcome["c1"].error = StoreError
    /\ reply["c1"].status = 500
    /\ reply["c1"].error # outcome["c1"].error

C18_WitnessContained ==
    /\ outcome["c1"].kind = "returned"
    /\ outcome["c1"].leadFailed /\ outcome["c1"].sheetFailed
    /\ reply["c1"].status = 200

C20_LeadStatusValid ==
    [][/\ \A l \in 1..Len(leads') :
             leads'[l].status \in {"new", "contacted", "qualified", "converted", "lost"}
       /\ Len(leads') >= Len(leads)
       /\ \A l \in (Len(leads) + 1)..Len(leads') : leads'[l].status = "new"
       /\ \A p \in HttpCallers :
             (reply'[p] # reply[p] /\ reply'[p].status = 400) => leads' = leads
       /\ \A l \in 1..Len(leads) :
             leads'[l] # leads[l] =>
                \E p \in HttpCallers :
                    reply'[p].status = 200 /\ reply'[p].success = TRUE]_vars

C20_Witness ==
    /\ Len(leads) = 2
    /\ leads[1].status = "converted"
    /\ leads[1].score > 50
    /\ leads[2].status = "new"
    /\ leads[2].sourceMessageId = NoId
    /\ reply["c1"] = [status |-> 400, success |-> FALSE, error |-> "Invalid status"]

\* the place of a position in the order of the steps of processMessage
rank(position) ==
    CASE position = "idle" -> 0
      [] position = "classify" -> 1
      [] position = "extract" -> 2
      [] position = "persist" -> 3
      [] position = "respond" -> 4
      [] position = "lead" -> 5
      [] position = "export" -> 6
      [] position = "finalize" -> 7
      [] position = "catch" -> 8
      [] position = "done" -> 9

\* the step ends the run of caller p and the batch loop starts its next run
nextItem(p) ==
    /\ pc[p] \in {"finalize", "catch"}
    /\ pc'[p] = "classify"
    /\ mode[p] = "batch"
    /\ Len(results'[p]) = Len(results[p]) + 1

\* C21: no call of a run is retried: every attempt of a step (classification,
\* extraction, Message creation, response generation, lead creation, export,
\* final update, the update of the recovery branch) leaves that step for a
\* later one, for the recovery branch or for the end of the run, whether the
\* call resolved or rejected; no position is ever entered twice in one run.
C21_NoRetry ==
    [][\A p \in Callers :
          ((pc'[p] # pc[p] \/ loc'[p] # loc[p]) /\ Running(p)) =>
              \/ rank(pc'[p]) > rank(pc[p])
              \/ nextItem(p)]_vars

C21_Witness ==
    \E p \in Callers :
        /\ outcome[p].kind = "raised"
        /\ outcome[p].error = AIError
        /\ outcome[p].ref # NoId
        /\ pc[p] = "done"

\* the position that follows a position when its call resolves
follows(a, b) ==
    \/ a = "classify" /\ b = "extract"
    \/ a = "extract" /\ b = "persist"
    \/ a = "persist" /\ b = "respond"
    \/ a = "respond" /\ b = "lead"
    \/ a = "lead" /\ b = "export"
    \/ a = "export" /\ b = "finalize"

\* C24: the steps of a run occur one after the other in the order classify,
\* extract, create the Message, respond, create the Lead, export, finalize,
\* and while a run is in steps 5 to 7 its Message exists with status
\* 'processing' (so it is not 'completed' before the export has ended).
C24_StrictSequence ==
    [][\A p \in Callers :
          /\ (acts(p) /\ Running(p) /\ pc[p] \notin {"finalize", "catch"}) =>
                (follows(pc[p], pc'[p]) \/ pc'[p] = "catch")
          /\ pc'[p] \in {"respond", "lead", "export"} =>
                /\ loc'[p].messageRef \in 1..Len(messages')
                /\ messages'[loc'[p].messageRef].processingStatus = "processing"]_vars

\* C27: a run whose classification or extraction failed changes nothing in
\* the stores: its recovery branch and its failing step leave messages, leads
\* and the sheet as they were.
C27_EarlyFailureNoWrites ==
    [][\A p \in Callers :
          (acts(p) /\ pc[p] \in {"classify", "extract", "catch"}
                   /\ loc[p].messageRef = NoId
                   /\ (pc[p] = "catch" => loc[p].error = AIError)) =>
              UNCHANGED <<messages, leads, sheet>>]_vars

\* C29: the recovery branch ends the run with the error of the step that
\* failed, whether or not its own update of the Message succeeded: the run
\* raises that error, and in a batch the item is recorded as failed with
\* that error message and the item's messageId.
C29_OriginalErrorKept ==
    [][\A p \in Callers :
          (pc[p] = "catch" /\ acts(p)) =>
              /\ loc[p].error \in {AIError, StoreError, UpdateError}
              /\ outcome'[p].kind = "raised"
              /\ outcome'[p].error = loc[p].error
              /\ mode[p] = "batch" =>
                    /\ Len(results'[p]) = Len(results[p]) + 1
                    /\ results'[p][Len(results'[p])] =
                          [success |-> FALSE, error |-> loc[p].error,
                           messageId |-> msg[p].messageId]]_vars

\* the batch item named document 1, which does not exist: the update of the
\* recovery branch rejected, and the item carries the error of the AI call
C29_Witness ==
    /\ messages = <<>>
    /\ Len(results["c2"]) >= 1
    /\ results["c2"][1] = [success |-> FALSE, error |-> AIError, messageId |-> 1]

\* C28: a Message with a non-null leadId names a stored Lead whose
\* sourceMessageId is the store id of that Message and whose organizationId
\* is the Message's; and the leadId a run returned is the leadId stored on
\* its Message.
C28_LeadBackReference ==
    /\ \A m \in 1..Len(messages) :
          ("leadId" \in DOMAIN messages[m] /\ messages[m].leadId # NoId) =>
              /\ messages[m].leadId \in 1..Len(leads)
              /\ leads[messages[m].leadId].sourceMessageId = m
              /\ leads[messages[m].leadId].organizationId = messages[m].organizationId
    /\ \A k \in RunKeys :
          succeeded(k) =>
              /\ "leadId" \in DOMAIN messages[resultAt(k).messageId]
              /\ resultAt(k).leadId = messages[resultAt(k).messageId].leadId

C28_Witness ==
    \E k \in RunKeys :
        /\ succeeded(k)
        /\ resultAt(k).leadId # NoId
        /\ messages[resultAt(k).messageId].leadId = resultAt(k).leadId
        /\ leads[resultAt(k).leadId].sourceMessageId = resultAt(k).messageId

\* C25: step 5 makes exactly one generator call per run: executeActionChain
\* when the intent is booking or inquiry, and then the refine text of the
\* chain is the response; otherwise generateResponse with the detected
\* language and the intent, and then its text is the response. No other step
\* calls a generator, and a run that returns hands back the response it
\* stored on its Message.
C25_OneGenerator ==
    [][\A p \in Callers :
          /\ (pc[p] = "respond" /\ acts(p)) =>
                /\ loc[p].generator.fn = "none"
                /\ IF loc[p].intent \in {S_booking, S_inquiry}
                   THEN /\ loc'[p].generator.fn = "executeActionChain"
                        /\ loc'[p].generator.message = msg[p].content
                        /\ pc'[p] = "lead" =>
                              \E rows \in ChainAI : loc'[p].aiResponse = rows[1].refine
                   ELSE /\ loc'[p].generator.fn = "generateResponse"
                        /\ loc'[p].generator.message = msg[p].content
                        /\ loc'[p].generator.language
                              = detectLanguage(msg[p].content).language
                        /\ loc'[p].generator.context = [intent |-> loc[p].intent]
                        /\ pc'[p] = "lead" =>
                              \E ai \in ChatAI : loc'[p].aiResponse = ai
          /\ (acts(p) /\ pc[p] \in {"lead", "export"}) =>
                /\ loc'[p].generator = loc[p].generator
                /\ loc'[p].aiResponse = loc[p].aiResponse
          /\ (acts(p) /\ pc[p] \in {"classify", "extract", "persist"}) =>
                loc'[p].generator.fn = "none"
          /\ returns(p) =>
                /\ outcome'[p].result.response = loc[p].aiResponse
                /\ messages'[loc[p].messageRef].aiResponse = loc[p].aiResponse
                /\ messages'[loc[p].messageRef].processingStatus = "completed"]_vars

C25_Witness ==
    /\ outcome["c1"].kind = "returned"
    /\ outcome["c1"].result.intent = S_general
    /\ outcome["c1"].result.response \in ChatAI
    /\ messages[outcome["c1"].ref].aiResponse = outcome["c1"].result.response

C25_WitnessChain ==
    /\ outcome["c1"].kind = "returned"
    /\ outcome["c1"].result.intent = S_booking
    /\ outcome["c1"].result.response = <<"r">>

\* marker word k occurs in the text at position i, whatever the case
occursAt(text, k, i) ==
    /\ i + Len(bmKeywords[k]) - 1 <= Len(text)
    /\ \A j \in 1..Len(bmKeywords[k]) :
          toLowerChar(text[i + j - 1]) = bmKeywords[k][j]

\* the marker words that occur in the text
markersIn(text) ==
    {k \in 1..Len(bmKeywords) : \E i \in 1..Len(text) : occursAt(text, k, i)}

\* the number of occurrences of marker words in the text
occurrences(text) ==
    Cardinality({<<k, i>> \in (1..Len(bmKeywords)) \X (1..Len(text)) :
                    occursAt(text, k, i)})

C23_CountsOccurrences ==
    (arg.fn = "detectLanguage" /\ fpc = "out") =>
        ret[1] = IF occurrences(arg.input) >= 2
                 THEN [language |-> "bm", confidence |-> 80]
                 ELSE [language |-> "en", confidence |-> 60]

\* C23 (amended): the result is {bm, 0.8} exactly when at least two different
\* marker words occur in the text (case-insensitive substring match), and
\* {en, 0.6} otherwise.
C23_CountsMarkers ==
    (arg.fn = "detectLanguage" /\ fpc = "out") =>
        ret[1] = IF Cardinality(markersIn(arg.input)) >= 2
                 THEN [language |-> "bm", confidence |-> 80]
                 ELSE [language |-> "en", confidence |-> 60]

C23_Witness ==
    /\ arg.fn = "detectLanguage" /\ fpc = "out"
    /\ arg.input = <<"S","a","y","a"," ","N","A","K">>
    /\ ret[1] = [language |-> "bm", confidence |-> 80]

\* values that are not strings: undefined, null and the number 7
NonStrings == {Undef, Null, "7"}

\* columns 4, 5 and 12 hold texts (message, intent, response); the others
\* hold single values
ValueColumns == {1, 2, 3, 6, 7, 8, 9, 10, 11, 13}

\* C26: every row writeMessageToSheet appends has 13 columns, each a string,
\* whatever the entity record of the summary; and when the sheets client is
\* not initialized, or the organization is read and has no connected
\* spreadsheet, the call returns success:false and appends nothing.
C26_RowOfStrings ==
    (arg.fn = "writeMessageToSheet" /\ fpc = "out") =>
        /\ \A r \in 1..Len(sheet) :
              /\ Len(sheet[r]) = 13
              /\ \A c \in ValueColumns : sheet[r][c] \notin NonStrings
              /\ \A c \in (1..13) \ ValueColumns : Len(sheet[r][c]) >= 0
        /\ (~sheetsReady \/ (ret.readOk /\ ~orgSheets[arg.input.organizationId])) =>
              /\ ret.end = "skipped"
              /\ sheet = <<>>
        /\ Len(sheet) = (IF ret.end = "written" THEN 1 ELSE 0)

\* the collection a read request addresses
readFrom == IF arg.fn = "getMessageById" THEN messages ELSE leads

\* the request carries a Bearer token that verifies for an active user
authentic ==
    /\ Len(arg.input.authorization) = 2
    /\ arg.input.authorization[1] = "Bearer "
    /\ arg.input.authorization[2] \in DOMAIN users
    /\ users[arg.input.authorization[2]].isActive

\* C30: the handler of GET /messages/:id and of GET /leads/:id runs only for
\* a request whose token verified and whose user exists and is active; a
\* response carries a document only when the document's organizationId is
\* the caller's, and a request for a stored document of another organization
\* is answered 403 (500 when the read of the document failed).
C30_ReadIsolation ==
    fpc = "out" =>
        LET r == ret.response
        IN  /\ r.next => authentic
            /\ ~r.next => (r.status \in {401, 403, 404} /\ "doc" \notin DOMAIN r)
            /\ "doc" \in DOMAIN r =>
                  /\ r.status = 200 /\ r.next
                  /\ r.doc = readFrom[arg.input.id]
                  /\ r.doc.organizationId
                        = users[arg.input.authorization[2]].organizationId
            /\ (/\ r.next
                /\ arg.input.id \in 1..Len(readFrom)
                /\ readFrom[arg.input.id].organizationId
                      # users[arg.input.authorization[2]].organizationId) =>
                  /\ r.status = (IF ret.docOk THEN 403 ELSE 500)
                  /\ r.success = FALSE

C30_Witness ==
    /\ fpc = "out"
    /\ arg.fn = "getMessageById"
    /\ arg.input = [authorization |-> <<"Bearer ", "u1">>, id |-> 2]
    /\ messages[2].organizationId = "org2"
    /\ ret.response = [next |-> TRUE, status |-> 403, success |-> FALSE,
                       error |-> "Access denied"]

C30_WitnessOwn ==
    /\ fpc = "out"
    /\ arg.fn = "getLeadById"
    /\ ret.response.status = 200
    /\ ret.response.doc.organizationId = "org2"

=============================================================================
